---- MODULE Spec2Model ----
(***************************************************************************)
(* Toric morphisms defined by fan morphisms                                *)
(* (src/src/sage/schemes/toric/morphism.py).                               *)
(*                                                                         *)
(* Lattices have dimension 0, 1 or 2, so every strictly convex cone is     *)
(* simplicial.  A lattice vector is a tuple of integers, a matrix acts on  *)
(* row vectors from the right (v |-> v*M, as in Sage), a fan is a tuple of *)
(* primitive ray generators with its generating cones given as sets of ray *)
(* indices (1-based here, 0-based in Sage).                                *)
(***************************************************************************)
EXTENDS Integers, Sequences, FiniteSets, TLC

\* Bound on the absolute value of the entries of the matrices drawn as inputs.
MaxEntry == 1

(***************************************************************************)
(* Integers, rationals, vectors, matrices.                                 *)
(***************************************************************************)
Abs(x) == IF x < 0 THEN -x ELSE x

RECURSIVE Gcd(_, _)
Gcd(a, b) == IF b = 0 THEN Abs(a) ELSE Gcd(b, Abs(a) % Abs(b))

\* A rational number num/den with den > 0 (not necessarily reduced).
Frac(n, d) == IF d < 0 THEN [num |-> -n, den |-> -d] ELSE [num |-> n, den |-> d]

\* ZZ(d) succeeds exactly on the rationals with an integer value.
IsIntegral(q) == q.num % q.den = 0

\* The value ZZ(d) of an integral rational.
ZZ(q) == q.num \div q.den

ZeroVec(n) == [i \in 1..n |-> 0]

IsZeroVec(v) == \A i \in 1..Len(v) : v[i] = 0

RECURSIVE SumTo(_, _)
SumTo(f, n) == IF n = 0 THEN 0 ELSE f[n] + SumTo(f, n - 1)

VecScale(c, v) == [i \in 1..Len(v) |-> c * v[i]]

\* gcd of the entries of a vector (0 for the zero vector).
RECURSIVE VecGcdTo(_, _)
VecGcdTo(v, n) == IF n = 0 THEN 0 ELSE Gcd(v[n], VecGcdTo(v, n - 1))

\* The primitive generator of the ray through a non-zero vector.
Primitive(v) ==
    LET g == VecGcdTo(v, Len(v))
    IN  IF g = 0 THEN v ELSE [i \in 1..Len(v) |-> v[i] \div g]

\* A matrix with nr rows and nc columns; e[i][j] is the entry of row i, column j.
Matrix(nr, nc, e) == [nr |-> nr, nc |-> nc, e |-> e]

identity_matrix(n) ==
    Matrix(n, n, [i \in 1..n |-> [j \in 1..n |-> IF i = j THEN 1 ELSE 0]])

\* v * M for a row vector v.
VecMat(v, M) ==
    [j \in 1..M.nc |-> SumTo([i \in 1..M.nr |-> v[i] * M.e[i][j]], M.nr)]

\* A * B.
MatMul(A, B) ==
    Matrix(A.nr, B.nc, [i \in 1..A.nr |-> VecMat(A.e[i], B)])

Det2(u, v) == u[1] * v[2] - u[2] * v[1]

\* Rank of a matrix with at most two rows and at most two columns.
Rank(M) ==
    IF M.nr = 0 \/ M.nc = 0 \/ \A i \in 1..M.nr : IsZeroVec(M.e[i]) THEN 0
    ELSE IF M.nr = 2 /\ M.nc = 2 /\ Det2(M.e[1], M.e[2]) # 0 THEN 2
    ELSE 1

\* First index at which a non-zero vector is non-zero.
FirstNonZero(v) == CHOOSE j \in 1..Len(v) : v[j] # 0 /\ \A i \in 1..(j - 1) : v[i] = 0

(***************************************************************************)
(* matrix(rows).solve_left(v): the rational x with x * rows = v, for       *)
(* linearly independent rows (at most two).  ok is FALSE when there is none.   *)
(***************************************************************************)
solve_left(rows, v) ==
    IF Len(rows) = 0 THEN [ok |-> IsZeroVec(v), x |-> << >>]
    ELSE IF Len(rows) = 1 THEN
        LET r == rows[1]
            j == FirstNonZero(r)
        IN  [ok |-> \A i \in 1..Len(v) : v[i] * r[j] = v[j] * r[i],
             x  |-> << Frac(v[j], r[j]) >>]
    ELSE
        LET D == Det2(rows[1], rows[2])
        IN  [ok |-> TRUE,
             x  |-> << Frac(Det2(v, rows[2]), D), Frac(Det2(rows[1], v), D) >>]

(***************************************************************************)
(* Fans.  rays: the tuple of primitive ray generators; cones: the          *)
(* generating (maximal) cones, each the set of the indices of its rays.    *)
(***************************************************************************)
Fan(dim, rays, cones) == [dim |-> dim, rays |-> rays, cones |-> cones]

nrays(F) == Len(F.rays)

\* Every cone of the fan: the faces of the generating cones (all simplicial).
AllCones(F) == UNION {SUBSET c : c \in F.cones}

\* The set of indices S in increasing order, as a tuple.
RECURSIVE SortedIdx(_)
SortedIdx(S) ==
    IF S = {} THEN << >>
    ELSE LET m == CHOOSE x \in S : \A y \in S : x <= y
         IN  << m >> \o SortedIdx(S \ {m})

\* cone.rays() of the cone with ray indices S: its rays in the order of the fan.
ConeRays(F, S) == LET idx == SortedIdx(S) IN [k \in 1..Len(idx) |-> F.rays[idx[k]]]

\* Whether the lattice vector v lies in the cone of F with ray indices S.
InCone(F, S, v) ==
    LET x == solve_left(ConeRays(F, S), v)
    IN  /\ x.ok
        /\ \A k \in 1..Len(x.x) : x.x[k].num >= 0

(***************************************************************************)
(* The fans of the toric varieties used in the examples of the module.     *)
(***************************************************************************)
\* toric_varieties.A1(): the affine line.
A1 == Fan(1, << <<1>> >>, {{1}})

\* toric_varieties.P1(): the projective line.
P1 == Fan(1, << <<1>>, <<-1>> >>, {{1}, {2}})

\* toric_varieties.A2(): the affine plane.
A2 == Fan(2, << <<1, 0>>, <<0, 1>> >>, {{1, 2}})

\* toric_varieties.P2(): the projective plane.
P2 == Fan(2, << <<1, 0>>, <<0, 1>>, <<-1, -1>> >>, {{1, 2}, {2, 3}, {1, 3}})

\* toric_varieties.P1xP1().
P1xP1 == Fan(2, << <<1, 0>>, <<-1, 0>>, <<0, 1>>, <<0, -1>> >>,
             {{1, 3}, {2, 3}, {2, 4}, {1, 4}})

\* toric_varieties.A2_Z2(): the quotient singularity C^2/Z_2.
A2_Z2 == Fan(2, << <<1, 0>>, <<1, 2>> >>, {{1, 2}})

\* A2_Z2.resolve(new_rays=[(1,1)]): the total space of O(2) over P1.
O2_P1 == Fan(2, << <<1, 0>>, <<1, 2>>, <<1, 1>> >>, {{1, 3}, {2, 3}})

\* Fan([Cone([(1,0), (1,1)])]): a chart of the blowup of the plane.
BlowupChart == Fan(2, << <<1, 0>>, <<1, 1>> >>, {{1, 2}})

Fans == {A1, P1, A2, P2, P1xP1, A2_Z2, O2_P1, BlowupChart}

(***************************************************************************)
(* Fan morphisms (sage.geometry.fan_morphism.FanMorphism): an integer      *)
(* matrix with a domain fan and a codomain fan such that the image of      *)
(* every cone of the domain fan lies in a cone of the codomain fan.        *)
(***************************************************************************)
FanMorphism(M, F1, F2) == [matrix |-> M, domain_fan |-> F1, codomain_fan |-> F2]

\* phi(ray): the image of a vector of the domain lattice.
Image(phi, v) == VecMat(v, phi.matrix)

\* Whether every ray of the cone S of the domain fan is mapped into the cone T
\* of the codomain fan.
MapsInto(phi, S, T) ==
    \A i \in S : InCone(phi.codomain_fan, T, Image(phi, phi.domain_fan.rays[i]))

\* The compatibility that FanMorphism's constructor validates.
IsFanMorphism(phi) ==
    /\ phi.matrix.nr = phi.domain_fan.dim
    /\ phi.matrix.nc = phi.codomain_fan.dim
    /\ \A S \in phi.domain_fan.cones :
          \E T \in phi.codomain_fan.cones : MapsInto(phi, S, T)

\* phi.image_cone(cone): the smallest cone of the codomain fan that contains
\* the image of the cone S of the domain fan.
image_cone(phi, S) ==
    LET into == {T \in AllCones(phi.codomain_fan) : MapsInto(phi, S, T)}
    IN  CHOOSE T \in into : \A U \in into : T \subseteq U

Entries == (-MaxEntry)..MaxEntry

Matrices(nr, nc) == {Matrix(nr, nc, e) : e \in [1..nr -> [1..nc -> Entries]]}

\* The fan morphisms from the fan F1 to the fan F2.
FanMorphismsBetween(F1, F2) ==
    {phi \in {FanMorphism(M, F1, F2) : M \in Matrices(F1.dim, F2.dim)} : IsFanMorphism(phi)}

\* The fan morphisms between the fans of the catalogue.
FanMorphisms == UNION {FanMorphismsBetween(F[1], F[2]) : F \in Fans \X Fans}

(***************************************************************************)
(* Building fans from cones given by their ray generators.  The order in   *)
(* which the fan constructor numbers the rays is left open: it is the      *)
(* tuple "order", an enumeration of the rays; the rays are taken in        *)
(* lexicographic order, increasing or decreasing.                          *)
(***************************************************************************)
\* Lexicographic order on vectors of the same length.
VecLess(u, v) ==
    \E k \in 1..Len(u) : u[k] < v[k] /\ \A i \in 1..(k - 1) : u[i] = v[i]

\* Every enumeration without repetition of the finite set S.
Orderings(S) ==
    {o \in [1..Cardinality(S) -> S] : \A a, b \in 1..Cardinality(S) : o[a] = o[b] => a = b}

\* The enumeration of a set of vectors in increasing lexicographic order.
SortedOrder(S) ==
    CHOOSE o \in Orderings(S) : \A a, b \in 1..Cardinality(S) : a < b => VecLess(o[a], o[b])

\* The numberings of a set of rays that are tried.
RayOrders(S) ==
    LET o == SortedOrder(S)
    IN  {o, [k \in 1..Len(o) |-> o[Len(o) + 1 - k]]}

\* Fan(cones, discard_faces=True): coneRays is a set of cones, each the set of
\* its ray generators; faces of other cones are discarded.
MakeFan(dim, coneRays, order) ==
    LET idx(C)  == {k \in 1..Len(order) : order[k] \in C}
        maximal == {C \in coneRays : \A D \in coneRays : C \subseteq D => C = D}
    IN  Fan(dim, order, {idx(C) : C \in maximal})

\* The rays that occur in a set of cones.
RaysOf(coneRays) == UNION coneRays

(***************************************************************************)
(* Sublattices: the saturation of the image and the kernel of a matrix,    *)
(* each given by its echelonized basis matrix.                             *)
(***************************************************************************)
\* v or -v, whichever has a positive first non-zero entry.
Normalized(v) == IF v[FirstNonZero(v)] < 0 THEN VecScale(-1, v) ELSE v

\* fm.image().saturation(): basis matrix of the saturation of the row lattice.
ImageSaturation(M) ==
    IF Rank(M) = 0 THEN Matrix(0, M.nc, << >>)
    ELSE IF Rank(M) = M.nc THEN identity_matrix(M.nc)
    ELSE LET r == M.e[CHOOSE i \in 1..M.nr : ~IsZeroVec(M.e[i])]
         IN  Matrix(1, M.nc, << Normalized(Primitive(r)) >>)

\* matrix.index_in_saturation(): the index of the row lattice in its saturation.
RECURSIVE MatGcdTo(_, _)
MatGcdTo(M, n) == IF n = 0 THEN 0 ELSE Gcd(VecGcdTo(M.e[n], M.nc), MatGcdTo(M, n - 1))

index_in_saturation(M) ==
    IF Rank(M) = 0 THEN 1
    ELSE IF Rank(M) = 2 THEN Abs(Det2(M.e[1], M.e[2]))
    ELSE MatGcdTo(M, M.nr)

MaxAbsEntry(M) ==
    LET S == {Abs(M.e[i][j]) : i \in 1..M.nr, j \in 1..M.nc} \cup {1}
    IN  CHOOSE m \in S : \A x \in S : x <= m

\* fm.kernel(): echelonized basis matrix of the kernel {v : v * M = 0}.
Kernel(M) ==
    IF Rank(M) = M.nr THEN Matrix(0, M.nr, << >>)
    ELSE IF Rank(M) = 0 THEN identity_matrix(M.nr)
    ELSE LET B == MaxAbsEntry(M)
             k == CHOOSE v \in [1..2 -> (-B)..B] :
                      /\ ~IsZeroVec(v)
                      /\ IsZeroVec(VecMat(v, M))
                      /\ v = Normalized(Primitive(v))
         IN  Matrix(1, 2, << k >>)

\* L.coordinates(v): the coordinates of a vector of the sublattice in its basis.
Coordinates(B, v) ==
    LET x == solve_left(B.e, v).x IN [k \in 1..B.nr |-> ZZ(x[k])]

(***************************************************************************)
(* FanMorphism: composition, factorization, kernel fan, predicates.        *)
(***************************************************************************)
\* self * right: right is applied first.
fm_mul(self, right) ==
    FanMorphism(MatMul(right.matrix, self.matrix), right.domain_fan, self.codomain_fan)

\* The rays of the image of the cone S of the domain fan under the matrix m.
ImageConeRays(F, S, m) ==
    {Primitive(VecMat(F.rays[i], m)) : i \in {i \in S : ~IsZeroVec(VecMat(F.rays[i], m))}}

\* The cones of the image fan of F under m: the images of the generating cones.
ImageFanCones(F, m) == {ImageConeRays(F, S, m) : S \in F.cones}

\* The intersections of the cones of F with the subspace spanned by the
\* sublattice with basis B, in the coordinates of B.
RestrictedCones(F, B) ==
    IF B.nr = 2 THEN {{F.rays[i] : i \in T} : T \in F.cones}
    ELSE IF B.nr = 0 THEN {{}}
    ELSE {  (IF InCone(F, T, B.e[1]) THEN {<<1>>} ELSE {})
              \cup (IF InCone(F, T, VecScale(-1, B.e[1])) THEN {<<-1>>} ELSE {})
            : T \in F.cones}

\* The matrix of phi_s: the rows of the matrix in the coordinates of L.
SurjectiveMatrix(M, L) == Matrix(M.nr, L.nr, [i \in 1..M.nr |-> Coordinates(L, M.e[i])])

\* FanMorphism.factor(): (phi_i, phi_b, phi_s) with self = phi_i * phi_b * phi_s.
\* L is the saturation of the image; the codomain fan of phi_s is the image
\* fan of the domain fan, with rays numbered as in os; the domain fan of phi_i
\* is the codomain fan restricted to L, with rays numbered as in oi.
fm_factor(self, os, oi) ==
    LET L       == ImageSaturation(self.matrix)
        m       == SurjectiveMatrix(self.matrix, L)
        Sigma_s == MakeFan(L.nr, ImageFanCones(self.domain_fan, m), os)
        Sigma_i == MakeFan(L.nr, RestrictedCones(self.codomain_fan, L), oi)
        phi_s   == FanMorphism(m, self.domain_fan, Sigma_s)
        phi_b   == FanMorphism(identity_matrix(L.nr), Sigma_s, Sigma_i)
        phi_i   == FanMorphism(L, Sigma_i, self.codomain_fan)
    IN  << phi_i, phi_b, phi_s >>

\* The ray numberings that factor() may use for its two intermediate fans.
ImageFanOrders(self) ==
    LET L == ImageSaturation(self.matrix)
    IN  RayOrders(RaysOf(ImageFanCones(self.domain_fan, SurjectiveMatrix(self.matrix, L))))

RestrictedFanOrders(self) ==
    RayOrders(RaysOf(RestrictedCones(self.codomain_fan, ImageSaturation(self.matrix))))

\* factor() with the rays of the intermediate fans in lexicographic order.
fm_factor_sorted(self) ==
    LET L == ImageSaturation(self.matrix)
    IN  fm_factor(self,
            SortedOrder(RaysOf(ImageFanCones(self.domain_fan, SurjectiveMatrix(self.matrix, L)))),
            SortedOrder(RaysOf(RestrictedCones(self.codomain_fan, L))))

\* fm.preimage_cones(T): the cones of the domain fan whose image cone is T.
preimage_cones(self, T) == {S \in AllCones(self.domain_fan) : image_cone(self, S) = T}

\* fm.primitive_preimage_cones(T): the minimal preimage cones of T.
primitive_preimage_cones(self, T) ==
    LET pre == preimage_cones(self, T)
    IN  {S \in pre : \A S2 \in pre : S2 \subseteq S => S2 = S}

fm_is_birational(self) ==
    /\ self.matrix.nr = self.matrix.nc
    /\ index_in_saturation(self.matrix) = 1
    /\ Rank(self.matrix) = self.matrix.nr

fm_is_surjective(self) ==
    /\ Rank(self.matrix) = self.matrix.nc
    /\ \A T \in AllCones(self.codomain_fan) : preimage_cones(self, T) # {}

\* Injective: the lattice map has a saturated image and, restricted to its
\* image, maps every cone to a cone of the same dimension.
fm_is_injective(self) ==
    /\ index_in_saturation(self.matrix) = 1
    /\ LET fac == fm_factor_sorted(self)
           g   == fm_mul(fac[2], fac[3])
       IN  \A S \in AllCones(self.domain_fan) : Cardinality(image_cone(g, S)) = Cardinality(S)

\* Fibration: surjective, and every primitive preimage cone is mapped
\* bijectively onto its image cone.
fm_is_fibration(self) ==
    /\ fm_is_surjective(self)
    /\ \A T \in AllCones(self.codomain_fan) :
          \A S \in primitive_preimage_cones(self, T) :
              {Primitive(Image(self, self.domain_fan.rays[i])) : i \in S}
                  = {self.codomain_fan.rays[k] : k \in T}

\* Bundle: a fibration in which the primitive cones are mapped isomorphically,
\* as lattice cones, and every cone is the sum of a primitive cone and a cone
\* of the kernel fan.
fm_is_bundle(self) ==
    /\ fm_is_fibration(self)
    /\ \A T \in AllCones(self.codomain_fan) :
          \A S \in primitive_preimage_cones(self, T) :
              {Image(self, self.domain_fan.rays[i]) : i \in S}
                  = {self.codomain_fan.rays[k] : k \in T}
    /\ \A S \in AllCones(self.domain_fan) :
          LET P == {i \in S : ~IsZeroVec(Image(self, self.domain_fan.rays[i]))}
          IN  P \in primitive_preimage_cones(self, image_cone(self, P))

\* The rays of the kernel fan: the rays of the domain fan mapped to the origin.
KernelRays(self) ==
    {self.domain_fan.rays[i] :
        i \in {i \in 1..nrays(self.domain_fan) : IsZeroVec(Image(self, self.domain_fan.rays[i]))}}

\* fm.kernel_fan(): the subfan of the domain fan mapped to the origin, a fan
\* in the kernel sublattice (rays in the coordinates of the domain lattice),
\* with rays numbered as in ok.
kernel_fan(self, ok) ==
    LET F == self.domain_fan
    IN  MakeFan(Kernel(self.matrix).nr,
                {{F.rays[i] : i \in S} :
                    S \in {S \in AllCones(F) : \A i \in S : F.rays[i] \in KernelRays(self)}},
                ok)

(***************************************************************************)
(* Toric varieties, Hom-sets, polynomials.  The coordinate ring of a toric *)
(* variety has one generator per ray of its fan; the polynomials that      *)
(* occur are 0 and monomials, kept as a coefficient and the exponents of   *)
(* the generators.                                                         *)
(***************************************************************************)
ToricVariety(F) == [fan |-> F]

Hom(X, Y) == [domain |-> X, codomain |-> Y]

\* R.one() in the coordinate ring with n generators.
One(n) == [coef |-> 1, exp |-> ZeroVec(n)]

\* p * x_j^d.
MulPow(p, j, d) == [p EXCEPT !.exp[j] = @ + d]

Returned(v) == [kind |-> "return", val |-> v]

Raised(exc, msg) == [kind |-> "raise", exc |-> exc, msg |-> msg]

(***************************************************************************)
(* class SchemeMorphism_polynomial_toric_variety                           *)
(***************************************************************************)
\* A single term is homogeneous for every grading of the coordinate ring.
is_homogeneous(p) == TRUE

\* __init__(parent, polynomials, check=True)
SchemeMorphism_polynomial_toric_variety(parent, polynomials) ==
    IF \E i \in 1..Len(polynomials) : ~is_homogeneous(polynomials[i])
    THEN Raised("ValueError", "is not homogeneous!")
    ELSE Returned([cls |-> "SchemeMorphism_polynomial_toric_variety",
                   domain |-> parent.domain, codomain |-> parent.codomain,
                   polys |-> polynomials])

(***************************************************************************)
(* class SchemeMorphism_fan_toric_variety                                  *)
(***************************************************************************)
\* Variant of __init__ that tests the domain fan only.
SchemeMorphism_fan_toric_variety_DomainOnly(parent, fan_morphism, check) ==
    IF check /\ parent.domain.fan # fan_morphism.domain_fan
    THEN Raised("ValueError", "The fan morphism domain must be the fan of the domain.")
    ELSE Returned([cls |-> "SchemeMorphism_fan_toric_variety",
                   domain |-> parent.domain, codomain |-> parent.codomain,
                   _fan_morphism |-> fan_morphism])

\* __init__(parent, fan_morphism, check=True)
SchemeMorphism_fan_toric_variety(parent, fan_morphism, check) ==
    IF check /\ parent.domain.fan # fan_morphism.domain_fan
    THEN Raised("ValueError", "The fan morphism domain must be the fan of the domain.")
    ELSE IF check /\ parent.codomain.fan # fan_morphism.codomain_fan
    THEN Raised("ValueError", "The fan morphism codomain must be the fan of the codomain.")
    ELSE Returned([cls |-> "SchemeMorphism_fan_toric_variety",
                   domain |-> parent.domain, codomain |-> parent.codomain,
                   _fan_morphism |-> fan_morphism])

\* Y.hom(fm, X): the element of the Hom-set built from a fan morphism.
hom(Y, fm, X) == SchemeMorphism_fan_toric_variety(Hom(Y, X), fm, TRUE)

fan_morphism(self) == self._fan_morphism

\* Variant of the inner loop without the integrality test: ZZ(d) rounds down.
RECURSIVE MulDegrees_NoRaise(_, _, _, _, _)
MulDegrees_NoRaise(polys, j, indices, degrees, k) ==
    IF k > Len(indices) \/ k > Len(degrees) THEN [raised |-> FALSE, polys |-> polys]
    ELSE MulDegrees_NoRaise([polys EXCEPT ![indices[k]] = MulPow(@, j, ZZ(degrees[k]))],
                            j, indices, degrees, k + 1)

\* Variant of the inner loop that indexes polys by the position of the ray in
\* the cone instead of its ambient ray index.
RECURSIVE MulDegrees_ConeIndex(_, _, _, _, _)
MulDegrees_ConeIndex(polys, j, indices, degrees, k) ==
    IF k > Len(indices) \/ k > Len(degrees) THEN [raised |-> FALSE, polys |-> polys]
    ELSE IF ~IsIntegral(degrees[k]) THEN [raised |-> TRUE, polys |-> polys]
    ELSE MulDegrees_ConeIndex([polys EXCEPT ![k] = MulPow(@, j, ZZ(degrees[k]))],
                              j, indices, degrees, k + 1)

\* The inner loop of as_polynomial_map over zip(sigma.ambient_ray_indices(),
\* degrees), from position k, for the generator x_j.
RECURSIVE MulDegrees(_, _, _, _, _)
MulDegrees(polys, j, indices, degrees, k) ==
    IF k > Len(indices) \/ k > Len(degrees) THEN [raised |-> FALSE, polys |-> polys]
    ELSE IF ~IsIntegral(degrees[k]) THEN [raised |-> TRUE, polys |-> polys]
    ELSE MulDegrees([polys EXCEPT ![indices[k]] = MulPow(@, j, ZZ(degrees[k]))],
                    j, indices, degrees, k + 1)

\* The outer loop of as_polynomial_map over zip(phi.domain_fan(1), R.gens()),
\* from the j-th ray of the domain fan.
RECURSIVE RayLoop(_, _, _)
RayLoop(f, polys, j) ==
    IF j > nrays(f.domain_fan) THEN [raised |-> FALSE, polys |-> polys]
    ELSE LET ray     == f.domain_fan.rays[j]
             sigma   == image_cone(f, {j})
             degrees == solve_left(ConeRays(f.codomain_fan, sigma), Image(f, ray)).x
             r       == MulDegrees(polys, j, SortedIdx(sigma), degrees, 1)
         IN  IF r.raised THEN r ELSE RayLoop(f, r.polys, j + 1)

as_polynomial_map(self) ==
    LET f     == fan_morphism(self)
        n     == nrays(self.domain.fan)
        polys == [i \in 1..nrays(f.codomain_fan) |-> One(n)]
        r     == RayLoop(f, polys, 1)
    IN  IF r.raised
        THEN Raised("TypeError", "The fan morphism cannot be written in homogeneous polynomials.")
        ELSE SchemeMorphism_polynomial_toric_variety(Hom(self.domain, self.codomain), r.polys)

\* __cmp__(self, right).  order is -1 or 1: what cmp gives for the first pair
\* of unequal entries of the two lists, or for two distinct types.
CmpValues(a, b, order) == IF a = b THEN 0 ELSE order

\* Variant of __cmp__ that leaves the codomain out of the compared lists.
__cmp___NoCodomain(self, right, order) ==
    IF right.cls = "SchemeMorphism_fan_toric_variety"
    THEN IF self.domain # right.domain THEN CmpValues(self.domain, right.domain, order)
         ELSE CmpValues(fan_morphism(self), fan_morphism(right), order)
    ELSE CmpValues(self.cls, right.cls, order)

__cmp__(self, right, order) ==
    IF right.cls = "SchemeMorphism_fan_toric_variety"
    THEN IF self.domain # right.domain THEN CmpValues(self.domain, right.domain, order)
         ELSE IF self.codomain # right.codomain
              THEN CmpValues(self.codomain, right.codomain, order)
         ELSE CmpValues(fan_morphism(self), fan_morphism(right), order)
    ELSE CmpValues(self.cls, right.cls, order)

\* Variant of _composition_ that does not multiply by the fan morphism of right.
_composition__SelfOnly(self, right, homset) ==
    SchemeMorphism_fan_toric_variety(homset, fan_morphism(self), TRUE)

\* _composition_(self, right, homset): homset(f, self.codomain()) passes the
\* codomain, a true value, as the check argument of the constructor.
_composition_(self, right, homset) ==
    LET f == fm_mul(fan_morphism(self), fan_morphism(right))
    IN  SchemeMorphism_fan_toric_variety(homset, f, TRUE)

\* self * right: for composable morphisms the composition in the Hom-set from
\* the domain of right to the codomain of self, a TypeError otherwise.
Mul(self, right) ==
    IF right.codomain # self.domain
    THEN Raised("TypeError", "self domain must equal right codomain")
    ELSE _composition_(self, right, Hom(right.domain, self.codomain))

\* cmp(right, self) for a right that is not a toric morphism defined by a fan
\* morphism: the comparison of the two types, taken the other way round.
reverse_cmp(right, self, order) == CmpValues(right.cls, self.cls, -order)

\* Variant of factor that returns the three morphisms in the order
\* (phi_s, phi_b, phi_i).
factor_Reversed(self, os, oi) ==
    LET fac     == fm_factor(fan_morphism(self), os, oi)
        X_s     == ToricVariety(fac[3].codomain_fan)
        X_i     == ToricVariety(fac[1].domain_fan)
        r1      == hom(X_i, fac[1], self.codomain)
        r2      == hom(X_s, fac[2], X_i)
        r3      == hom(self.domain, fac[3], X_s)
    IN  IF r1.kind = "raise" THEN r1
        ELSE IF r2.kind = "raise" THEN r2
        ELSE IF r3.kind = "raise" THEN r3
        ELSE Returned(<< r3.val, r2.val, r1.val >>)

\* Variant of factor that builds X_s and X_i from the fans of phi_b the wrong
\* way round.
factor_SwappedVarieties(self, os, oi) ==
    LET fac     == fm_factor(fan_morphism(self), os, oi)
        X_s     == ToricVariety(fac[2].codomain_fan)
        X_i     == ToricVariety(fac[2].domain_fan)
        r1      == hom(X_i, fac[1], self.codomain)
        r2      == hom(X_s, fac[2], X_i)
        r3      == hom(self.domain, fac[3], X_s)
    IN  IF r1.kind = "raise" THEN r1
        ELSE IF r2.kind = "raise" THEN r2
        ELSE IF r3.kind = "raise" THEN r3
        ELSE Returned(<< r1.val, r2.val, r3.val >>)

\* factor(self), with the ray numberings os and oi of the intermediate fans.
factor(self, os, oi) ==
    LET fac     == fm_factor(fan_morphism(self), os, oi)
        phi_i   == fac[1]
        phi_b   == fac[2]
        phi_s   == fac[3]
        X       == self.domain
        X_s     == ToricVariety(phi_s.codomain_fan)
        X_i     == ToricVariety(phi_i.domain_fan)
        X_prime == self.codomain
        r1      == hom(X_i, phi_i, X_prime)
        r2      == hom(X_s, phi_b, X_i)
        r3      == hom(X, phi_s, X_s)
    IN  IF r1.kind = "raise" THEN r1
        ELSE IF r2.kind = "raise" THEN r2
        ELSE IF r3.kind = "raise" THEN r3
        ELSE Returned(<< r1.val, r2.val, r3.val >>)

is_bundle(self) == fm_is_bundle(fan_morphism(self))

is_fibration(self) == fm_is_fibration(fan_morphism(self))

\* Variant of is_injective that asks the fan morphism for is_surjective.
is_injective_AsSurjective(self) == fm_is_surjective(fan_morphism(self))

is_injective(self) == fm_is_injective(fan_morphism(self))

is_surjective(self) == fm_is_surjective(fan_morphism(self))

\* Variant of fiber that lists the rays of the fiber fan in the opposite order
\* to the rays of the kernel fan.
fiber_ReversedRays(self, ok) ==
    LET fm        == fan_morphism(self)
        ker_fan   == kernel_fan(fm, ok)
        K         == Kernel(fm.matrix)
        n         == nrays(ker_fan)
        rays      == [k \in 1..n |-> Coordinates(K, ker_fan.rays[n + 1 - k])]
        fiber_fan == Fan(K.nr, rays, ker_fan.cones)
        X         == ToricVariety(fiber_fan)
        fan_embedding == FanMorphism(K, fiber_fan, self.domain.fan)
        embedding == SchemeMorphism_fan_toric_variety(Hom(X, self.domain), fan_embedding, TRUE)
    IN  IF ~IsFanMorphism(fan_embedding)
        THEN Raised("ValueError", "not a fan morphism")
        ELSE IF embedding.kind = "raise" THEN embedding
        ELSE Returned([fan |-> embedding.val.domain.fan,
                       _embedding_morphism |-> embedding.val])

\* fiber(self), with the ray numbering ok of the kernel fan.
fiber(self, ok) ==
    LET fm        == fan_morphism(self)
        ker_fan   == kernel_fan(fm, ok)
        K         == Kernel(fm.matrix)
        rays      == [k \in 1..nrays(ker_fan) |-> Coordinates(K, ker_fan.rays[k])]
        cones     == ker_fan.cones
        fiber_fan == Fan(K.nr, rays, cones)
        X         == ToricVariety(fiber_fan)
        fan_embedding == FanMorphism(K, fiber_fan, self.domain.fan)
        embedding == SchemeMorphism_fan_toric_variety(Hom(X, self.domain), fan_embedding, TRUE)
    IN  IF ~IsFanMorphism(fan_embedding)
        THEN Raised("ValueError", "not a fan morphism")
        ELSE IF embedding.kind = "raise" THEN embedding
        ELSE Returned([fan |-> embedding.val.domain.fan,
                       _embedding_morphism |-> embedding.val])

(***************************************************************************)
(* class SchemeMorphism_fan_fiber_toric_variety: the methods defined after *)
(* base_cone().                                                            *)
(***************************************************************************)
\* The methods that each class of the module defines.
MethodsOf(cls) ==
    CASE cls = "SchemeMorphism_fan_toric_variety" ->
            {"__init__", "__cmp__", "_composition_", "_repr_defn", "factor",
             "fan_morphism", "as_polynomial_map", "is_bundle", "is_fibration",
             "is_injective", "is_surjective", "fiber", "fiber_component",
             "fiber_dimension", "fiber_graph"}
      [] cls = "SchemeMorphism_fan_fiber_toric_variety" ->
            {"__init__", "_repr_defn", "as_polynomial_map", "_make_fiber",
             "defining_cone", "base_cone", "is_birational", "is_injective",
             "is_surjective"}
      [] cls = "SchemeMorphism_polynomial_toric_variety" -> {"__init__", "as_fan_morphism"}
      [] cls = "SchemeMorphism_orbit_closure_toric_variety" ->
            {"__init__", "defining_cone", "_reverse_ray_map", "_repr_defn",
             "as_polynomial_map"}
      [] OTHER -> {}

\* is_birational(self): return self.fan_morphism().is_birational()
is_birational(self) ==
    IF "fan_morphism" \notin MethodsOf(self.cls)
    THEN Raised("AttributeError", "fan_morphism")
    ELSE Returned(fm_is_birational(fan_morphism(self)))

\* self.is_birational(): the attribute lookup, then the call.
call_is_birational(self) ==
    IF "is_birational" \notin MethodsOf(self.cls)
    THEN Raised("AttributeError", "is_birational")
    ELSE is_birational(self)

(***************************************************************************)
(* class SchemeMorphism_orbit_closure_toric_variety                        *)
(***************************************************************************)
\* R.zero() and R.gen(i) in the coordinate ring with n generators (i from 1).
Zero(n) == [coef |-> 0, exp |-> ZeroVec(n)]

Gen(n, i) == MulPow(One(n), i, 1)

\* __init__(parent, defining_cone, ray_map)
SchemeMorphism_orbit_closure_toric_variety(parent, defining_cone, ray_map) ==
    [cls |-> "SchemeMorphism_orbit_closure_toric_variety",
     domain |-> parent.domain, codomain |-> parent.codomain,
     _defining_cone |-> defining_cone, _ray_map |-> ray_map]

\* _reverse_ray_map(self): {orbit ray generator: preimage ray index}.  The
\* rays mapped to zero are skipped; of several ambient rays with the same
\* image the dictionary keeps one.
_reverse_ray_map(self) ==
    LET codomain_fan == self.codomain.fan
        keys == {self._ray_map[n1] : n1 \in {n1 \in DOMAIN self._ray_map :
                                                ~IsZeroVec(self._ray_map[n1])}}
    IN  [n2 \in keys |-> CHOOSE ray_index \in 1..nrays(codomain_fan) :
                            /\ codomain_fan.rays[ray_index] \in DOMAIN self._ray_map
                            /\ self._ray_map[codomain_fan.rays[ray_index]] = n2]

\* Variant of the loop that leaves the polynomial 1 for a ray that is not a key.
RECURSIVE OrbitRayLoop_Skip(_, _, _, _)
OrbitRayLoop_Skip(polys, rays, ray_index_map, i) ==
    IF i > Len(rays) THEN [raised |-> FALSE, polys |-> polys]
    ELSE IF rays[i] \notin DOMAIN ray_index_map
    THEN OrbitRayLoop_Skip(polys, rays, ray_index_map, i + 1)
    ELSE OrbitRayLoop_Skip([polys EXCEPT ![ray_index_map[rays[i]]] = Gen(Len(rays), i)],
                           rays, ray_index_map, i + 1)

\* Variant of the loop that writes the generator at the position of the orbit
\* ray instead of the index of the ambient ray.
RECURSIVE OrbitRayLoop_OrbitIndex(_, _, _, _)
OrbitRayLoop_OrbitIndex(polys, rays, ray_index_map, i) ==
    IF i > Len(rays) THEN [raised |-> FALSE, polys |-> polys]
    ELSE IF rays[i] \notin DOMAIN ray_index_map THEN [raised |-> TRUE, polys |-> polys]
    ELSE OrbitRayLoop_OrbitIndex([polys EXCEPT ![i] = Gen(Len(rays), i)],
                                 rays, ray_index_map, i + 1)

\* The loop of as_polynomial_map over enumerate(orbit.fan().rays()), from the
\* i-th ray: a ray that is not a key of ray_index_map ends it with KeyError.
RECURSIVE OrbitRayLoop(_, _, _, _)
OrbitRayLoop(polys, rays, ray_index_map, i) ==
    IF i > Len(rays) THEN [raised |-> FALSE, polys |-> polys]
    ELSE IF rays[i] \notin DOMAIN ray_index_map THEN [raised |-> TRUE, polys |-> polys]
    ELSE OrbitRayLoop([polys EXCEPT ![ray_index_map[rays[i]]] = Gen(Len(rays), i)],
                      rays, ray_index_map, i + 1)

\* The end of as_polynomial_map, for the outcome of the loop.
OrbitPolynomialMap(self, loop) ==
    IF loop.raised
    THEN Raised("TypeError", "The embedding cannot be written with homogeneous polynomials.")
    ELSE SchemeMorphism_polynomial_toric_variety(Hom(self.domain, self.codomain), loop.polys)

\* as_polynomial_map(self) of the embedding of an orbit closure.
orbit_closure_as_polynomial_map(self) ==
    LET orbit        == self.domain
        codomain_fan == self.codomain.fan
        n            == nrays(orbit.fan)
        polys        == [k \in 1..nrays(codomain_fan) |->
                            IF k \in self._defining_cone THEN Zero(n) ELSE One(n)]
    IN  OrbitPolynomialMap(self, OrbitRayLoop(polys, orbit.fan.rays, _reverse_ray_map(self), 1))

(***************************************************************************)
(* Lattice operations used by _make_fiber (matrices, free modules, cones   *)
(* and fan morphisms of the library).                                      *)
(***************************************************************************)
\* fm.matrix().solve_left(v): a rational solution x of x * M = v whose
\* coordinates outside the pivot rows are zero; ok is FALSE when there is none.
matrix_solve_left(M, v) ==
    IF Rank(M) = 0 THEN [ok |-> IsZeroVec(v), x |-> [k \in 1..M.nr |-> Frac(0, 1)]]
    ELSE IF Rank(M) = 2 THEN solve_left(M.e, v)
    ELSE LET i == CHOOSE i \in 1..M.nr :
                      ~IsZeroVec(M.e[i]) /\ \A k \in 1..(i - 1) : IsZeroVec(M.e[k])
             s == solve_left(<< M.e[i] >>, v)
         IN  [ok |-> s.ok,
              x  |-> [k \in 1..M.nr |-> IF k = i THEN s.x[1] ELSE Frac(0, 1)]]

\* Whether every coordinate of the rational vector x is an integer.
IsIntegralVec(x) == \A k \in 1..Len(x) : IsIntegral(x[k])

\* lattice.submodule(gens).saturation() for integral generators in a lattice
\* of dimension n: the echelonized basis matrix of the saturation of the span.
Saturation(gens, n) ==
    IF \A g \in gens : IsZeroVec(g) THEN Matrix(0, n, << >>)
    ELSE IF n = 1 THEN identity_matrix(1)
    ELSE IF \E g, h \in gens : Det2(g, h) # 0 THEN identity_matrix(2)
    ELSE Matrix(1, 2, << Normalized(Primitive(CHOOSE g \in gens : ~IsZeroVec(g))) >>)

\* The projection of the lattice with basis L onto cone_L.sublattice_quotient(),
\* the quotient of L by the sublattice spanned by the cone with the rays
\* coneRays, applied to the vector v of L.  The quotient has rank 0 or 1; the
\* library's choice of its generator is the sign orient.
QuotientProjection(L, coneRays, orient, v) ==
    LET c == Coordinates(L, v)
        d == {Coordinates(L, r) : r \in coneRays}
    IN  IF L.nr = Cardinality(d) THEN << >>
        ELSE IF d = {} THEN VecScale(orient, c)
        ELSE << orient * Det2(CHOOSE r \in d : TRUE, c) >>

\* fan.embed(cone): the cone of the fan with the rays of the given cone, as
\* the set of its ambient ray indices.
embed(F, cone) == {i \in 1..nrays(F) : F.rays[i] \in cone}

\* cone.rays() of a cone of the fan F, as a set.
RaySet(F, S) == {F.rays[i] : i \in S}

\* fm.relative_star_generators(S): the maximal cones of the domain fan that
\* contain S and are mapped into the image cone of S.
relative_star_generators(fm, S) ==
    LET base == image_cone(fm, S)
        star == {C \in AllCones(fm.domain_fan) : S \subseteq C /\ image_cone(fm, C) = base}
    IN  {C \in star : \A D \in star : C \subseteq D => C = D}

\* Cone(rays): the primitive generators of the non-zero vectors.
Cone(rays) == {Primitive(r) : r \in {r \in rays : ~IsZeroVec(r)}}

\* The numbering of a set of rays that Fan() uses: lexicographic, or the
\* reverse when rev is TRUE.
RayOrder(S, rev) ==
    LET o == SortedOrder(S)
    IN  IF rev THEN [k \in 1..Len(o) |-> o[Len(o) + 1 - k]] ELSE o

\* X.orbit_closure(cone).embedding_morphism(): the orbit closure of the cone
\* with the given rays is the variety of the fan of the projections of the
\* star of the cone to the quotient of the lattice by the span of the cone.
orbit_closure(X, cone, orient, rev) ==
    LET F     == X.fan
        S     == embed(F, cone)
        projection == [i \in 1..nrays(F) |->
                          QuotientProjection(identity_matrix(F.dim), cone, orient, F.rays[i])]
        star  == {C \in F.cones : S \subseteq C}
        cones == {Cone({projection[i] : i \in C}) : C \in star}
        fan   == MakeFan(F.dim - Cardinality(S), cones, RayOrder(RaysOf(cones), rev))
    IN  SchemeMorphism_orbit_closure_toric_variety(
            Hom(ToricVariety(fan), X), S,
            [n1 \in RaySet(F, UNION star) |->
                projection[CHOOSE i \in 1..nrays(F) : F.rays[i] = n1]])

(***************************************************************************)
(* class SchemeMorphism_fan_fiber_toric_variety                            *)
(***************************************************************************)
\* _make_fiber(self), for the fan morphism, defining cone and base cone of
\* self: the fiber variety and self._ray_index_map.
_make_fiber(fm, defining_cone, base_cone, orient, rev) ==
    LET F         == fm.domain_fan
        ker       == Kernel(fm.matrix)
        base_rays == ConeRays(fm.codomain_fan, base_cone)
        base_cone_preimg ==
            [k \in 1..Len(base_rays) |-> matrix_solve_left(fm.matrix, base_rays[k])]
    IN  IF \E k \in 1..Len(base_rays) : ~base_cone_preimg[k].ok
        THEN Raised("ValueError", "matrix equation has no solutions")
        ELSE IF \E k \in 1..Len(base_rays) : ~IsIntegralVec(base_cone_preimg[k].x)
        THEN Raised("ArithmeticError", "Argument gens does not generate a submodule of self.")
        ELSE
        LET L == Saturation({ker.e[k] : k \in 1..ker.nr}
                                \cup {[i \in 1..F.dim |-> ZZ(base_cone_preimg[k].x[i])] :
                                        k \in 1..Len(base_rays)},
                            F.dim)
            projection(ray) == QuotientProjection(L, RaySet(F, defining_cone), orient, ray)
            star      == relative_star_generators(fm, defining_cone)
            star_rays == UNION {RaySet(F, C) : C \in star}
            cones     == {Cone({projection(r) : r \in RaySet(F, C)}) : C \in star}
            fiber_fan == MakeFan(L.nr - Cardinality(defining_cone), cones,
                                 RayOrder(RaysOf(cones), rev))
            keys      == {projection(r) : r \in {r \in star_rays : ~IsZeroVec(projection(r))}}
            ray_index_map ==
                [p \in keys |-> CHOOSE i \in 1..nrays(F) :
                                    F.rays[i] \in star_rays /\ projection(F.rays[i]) = p]
        IN  Returned([fiber |-> ToricVariety(fiber_fan), _ray_index_map |-> ray_index_map])

\* The end of __init__: the attributes of self once _make_fiber has returned
\* made; an exception raised by _make_fiber leaves __init__.
FiberEmbedding(toric_variety, fm, _defining_cone, _base_cone, made) ==
    IF made.kind = "raise" THEN made
    ELSE Returned([cls |-> "SchemeMorphism_fan_fiber_toric_variety",
                   domain |-> made.val.fiber, codomain |-> toric_variety,
                   _fan_morphism |-> fm,
                   _defining_cone |-> _defining_cone,
                   _base_cone |-> _base_cone,
                   _ray_index_map |-> made.val._ray_index_map])

\* __init__(toric_variety, fan_morphism, defining_cone, check=True)
SchemeMorphism_fan_fiber_toric_variety(toric_variety, fm, defining_cone, check, orient, rev) ==
    IF check /\ toric_variety.fan # fm.domain_fan
    THEN Raised("ValueError", "The total space toric variety must be the fan morphism codomain.")
    ELSE LET _defining_cone == embed(fm.domain_fan, defining_cone)
             _base_cone     == image_cone(fm, _defining_cone)
         IN  FiberEmbedding(toric_variety, fm, _defining_cone, _base_cone,
                            _make_fiber(fm, _defining_cone, _base_cone, orient, rev))

defining_cone(self) == self._defining_cone

base_cone(self) == self._base_cone

\* Variant of the loop that leaves the polynomial 1 for a ray that is not a key.
RECURSIVE FiberRayLoop_Skip(_, _, _, _)
FiberRayLoop_Skip(polys, rays, _ray_index_map, i) ==
    IF i > Len(rays) THEN [raised |-> FALSE, polys |-> polys]
    ELSE IF rays[i] \notin DOMAIN _ray_index_map
    THEN FiberRayLoop_Skip(polys, rays, _ray_index_map, i + 1)
    ELSE FiberRayLoop_Skip([polys EXCEPT ![_ray_index_map[rays[i]]] = Gen(Len(rays), i)],
                           rays, _ray_index_map, i + 1)

\* The loop of as_polynomial_map over zip(fiber.fan().rays(), R.gens()), from
\* the i-th ray: a ray that is not a key of _ray_index_map ends it with KeyError.
RECURSIVE FiberRayLoop(_, _, _, _)
FiberRayLoop(polys, rays, _ray_index_map, i) ==
    IF i > Len(rays) THEN [raised |-> FALSE, polys |-> polys]
    ELSE IF rays[i] \notin DOMAIN _ray_index_map THEN [raised |-> TRUE, polys |-> polys]
    ELSE FiberRayLoop([polys EXCEPT ![_ray_index_map[rays[i]]] = Gen(Len(rays), i)],
                      rays, _ray_index_map, i + 1)

\* The end of as_polynomial_map, for the outcome of the loop.
FiberPolynomialMap(self, loop) ==
    IF loop.raised
    THEN Raised("TypeError", "The morphism cannot be written using homogeneous polynomials.")
    ELSE SchemeMorphism_polynomial_toric_variety(Hom(self.domain, self.codomain), loop.polys)

\* as_polynomial_map(self) of the embedding of a fiber component.
fiber_as_polynomial_map(self) ==
    LET toric_variety == self.codomain
        n             == nrays(self.domain.fan)
        polys         == [k \in 1..nrays(toric_variety.fan) |->
                             IF k \in defining_cone(self) THEN Zero(n) ELSE One(n)]
    IN  FiberPolynomialMap(self, FiberRayLoop(polys, self.domain.fan.rays,
                                              self._ray_index_map, 1))

(***************************************************************************)
(* SchemeMorphism_fan_toric_variety.fiber_component                        *)
(***************************************************************************)
\* embedding.domain(): the fiber variety, its fan together with its embedding
\* morphism; an exception raised by the constructor is passed on.
EmbeddedDomain(embedding) ==
    IF embedding.kind = "raise" THEN embedding
    ELSE Returned([fan |-> embedding.val.domain.fan, _embedding_morphism |-> embedding.val])

\* fiber_component(self, domain_cone); domain_cone is the set of the rays of
\* a cone of the domain fan.
fiber_component(self, domain_cone, orient, rev) ==
    IF domain_cone = {}
    THEN fiber(self, RayOrder(KernelRays(fan_morphism(self)), rev))
    ELSE EmbeddedDomain(SchemeMorphism_fan_fiber_toric_variety(
                            self.domain, fan_morphism(self), domain_cone, TRUE, orient, rev))

\* fiber_dimension(self, codomain_cone); codomain_cone is a cone of the
\* codomain fan.  max() of an empty list raises ValueError.
fiber_dimension(self, codomain_cone) ==
    LET fm       == fan_morphism(self)
        base_dim == Cardinality(codomain_cone)
        dim      == {base_dim - Cardinality(c) : c \in primitive_preimage_cones(fm, codomain_cone)}
    IN  IF dim = {}
        THEN Raised("ValueError", "max() arg is an empty sequence")
        ELSE Returned((CHOOSE d \in dim : \A x \in dim : x <= d)
                        + self.domain.fan.dim - Rank(fm.matrix))

\* The tuple fm.primitive_preimage_cones(T): the cones by dimension, cones of
\* the same dimension by their ray indices.
PrimitivePreimageTuple(fm, T) ==
    LET prim   == primitive_preimage_cones(fm, T)
        key(c) == 100 * Cardinality(c) + SumTo([i \in 1..nrays(fm.domain_fan) |->
                                                   IF i \in c THEN 2 ^ i ELSE 0],
                                               nrays(fm.domain_fan))
    IN  CHOOSE o \in Orderings(prim) :
            \A a, b \in 1..Cardinality(prim) : a < b => key(o[a]) < key(o[b])

\* Graph(m, loops=False, multiedges=False) on the vertices 1..n (0..n-1 in
\* Sage) followed by set_vertex(i, component[i]): the labels of the vertices
\* and the set of the edges.  A fiber_component call that raised ends the loop.
Graph(n, m, component) ==
    LET failed == {i \in 1..n : component[i].kind = "raise"}
    IN  IF failed # {}
        THEN component[CHOOSE i \in failed : \A k \in failed : i <= k]
        ELSE Returned([vertices |-> [i \in 1..n |-> component[i].val],
                       edges    |-> {e \in {{i, j} : i, j \in 1..n} :
                                        \E i, j \in e : m[i][j] # 0}])

\* fiber_graph(self, codomain_cone)
fiber_graph(self, codomain_cone, orient, rev) ==
    LET fm   == fan_morphism(self)
        prim == PrimitivePreimageTuple(fm, codomain_cone)
        n    == Len(prim)
        is_union_in_fan(c0, c1) == (c0 \cup c1) \in AllCones(fm.domain_fan)
        m0   == [i \in 1..n |-> [j \in 1..n |->
                    IF is_union_in_fan(prim[i], prim[j]) THEN 1 ELSE 0]]
        m    == [i \in 1..n |-> [m0[i] EXCEPT ![i] = 0]]
    IN  Graph(n, m, [i \in 1..n |->
                        fiber_component(self, RaySet(fm.domain_fan, prim[i]), orient, rev)])

\* The toric morphisms Y.hom(fm, X) between the varieties of the catalogue.
ToricMorphisms ==
    {hom(ToricVariety(f.domain_fan), f, ToricVariety(f.codomain_fan)).val : f \in FanMorphisms}

\* The toric morphisms Y.hom(fm, X) from the variety Y to the variety X.
ToricMorphismsBetween(Y, X) == {hom(Y, f, X).val : f \in FanMorphismsBetween(Y.fan, X.fan)}

(***************************************************************************)
(* State: phi, a toric morphism defined by a fan morphism; call, the last  *)
(* method call and its arguments; ret, what the call returned or raised.   *)
(* The other modules of the package have their own objects: game, a normal *)
(* form game, with lcp, the log of the runs of the external LCP solver     *)
(* (normal_form_game.py); frames, the local frames of a vector bundle      *)
(* (local_frame.py).  A specification that has no such object holds the    *)
(* variable at None.                                                       *)
(***************************************************************************)
VARIABLES phi, call, ret, game, lcp, frames

vars == <<phi, call, ret, game, lcp, frames>>

None == [cls |-> "NoneType"]

Init ==
    /\ phi \in ToricMorphisms
    /\ call = [op |-> "none"]
    /\ ret = [kind |-> "none"]
    /\ game = None
    /\ lcp = None
    /\ frames = None

\* No call is in progress: the caller holds phi and no result.
Idle == call.op = "none"

\* The caller drops the result of the last call.
Drop ==
    /\ ~Idle
    /\ call' = [op |-> "none"]
    /\ ret' = [kind |-> "none"]
    /\ UNCHANGED <<phi, game, lcp, frames>>

AsPolynomialMap ==
    /\ Idle
    /\ call' = [op |-> "as_polynomial_map"]
    /\ ret' = as_polynomial_map(phi)
    /\ UNCHANGED <<phi, game, lcp, frames>>

Factor ==
    /\ Idle
    /\ \E os \in ImageFanOrders(fan_morphism(phi)), oi \in RestrictedFanOrders(fan_morphism(phi)) :
        /\ call' = [op |-> "factor", os |-> os, oi |-> oi]
        /\ ret' = factor(phi, os, oi)
        /\ UNCHANGED <<phi, game, lcp, frames>>

IsBundle ==
    /\ Idle
    /\ call' = [op |-> "is_bundle"]
    /\ ret' = Returned(is_bundle(phi))
    /\ UNCHANGED <<phi, game, lcp, frames>>

IsFibration ==
    /\ Idle
    /\ call' = [op |-> "is_fibration"]
    /\ ret' = Returned(is_fibration(phi))
    /\ UNCHANGED <<phi, game, lcp, frames>>

IsInjective ==
    /\ Idle
    /\ call' = [op |-> "is_injective"]
    /\ ret' = Returned(is_injective(phi))
    /\ UNCHANGED <<phi, game, lcp, frames>>

IsSurjective ==
    /\ Idle
    /\ call' = [op |-> "is_surjective"]
    /\ ret' = Returned(is_surjective(phi))
    /\ UNCHANGED <<phi, game, lcp, frames>>

IsBirational ==
    /\ Idle
    /\ call' = [op |-> "is_birational"]
    /\ ret' = call_is_birational(phi)
    /\ UNCHANGED <<phi, game, lcp, frames>>

Fiber ==
    /\ Idle
    /\ \E ok \in RayOrders(KernelRays(fan_morphism(phi))) :
        /\ call' = [op |-> "fiber", ok |-> ok]
        /\ ret' = fiber(phi, ok)
        /\ UNCHANGED <<phi, game, lcp, frames>>

(***************************************************************************)
(* Construction: SchemeMorphism_fan_toric_variety(parent, fm, check) with  *)
(* the fan morphism of phi and any Hom-set of the catalogue.               *)
(***************************************************************************)
Varieties == {ToricVariety(F) : F \in Fans}

Construct ==
    /\ Idle
    /\ \E X \in Varieties, Y \in Varieties, check \in BOOLEAN :
        /\ call' = [op |-> "__init__", parent |-> Hom(X, Y),
                    fan_morphism |-> fan_morphism(phi), check |-> check]
        /\ ret' = SchemeMorphism_fan_toric_variety(Hom(X, Y), fan_morphism(phi), check)
        /\ UNCHANGED <<phi, game, lcp, frames>>

(***************************************************************************)
(* Comparison: cmp(phi, right) and cmp(right, phi).                        *)
(***************************************************************************)
\* What phi is compared with: the morphisms of its Hom-set; morphisms built
\* without the check from its fan morphism and another domain or codomain;
\* a polynomial morphism of its Hom-set; the integer 1.
Rights(self) ==
    ToricMorphismsBetween(self.domain, self.codomain)
    \cup {SchemeMorphism_fan_toric_variety(Hom(X, self.codomain), fan_morphism(self), FALSE).val :
            X \in Varieties}
    \cup {SchemeMorphism_fan_toric_variety(Hom(self.domain, Y), fan_morphism(self), FALSE).val :
            Y \in Varieties}
    \cup {SchemeMorphism_polynomial_toric_variety(
              Hom(self.domain, self.codomain),
              [i \in 1..nrays(self.codomain.fan) |-> One(nrays(self.domain.fan))]).val,
          [cls |-> "Integer", value |-> 1]}

Cmp ==
    /\ Idle
    /\ \E right \in Rights(phi), order \in {-1, 1} :
        /\ call' = [op |-> "__cmp__", right |-> right]
        /\ ret' = Returned([cmp |-> __cmp__(phi, right, order),
                            reverse |-> IF right.cls = "SchemeMorphism_fan_toric_variety"
                                        THEN __cmp__(right, phi, -order)
                                        ELSE reverse_cmp(right, phi, order)])
        /\ UNCHANGED <<phi, game, lcp, frames>>

(***************************************************************************)
(* Composition: left * phi, and the two ways to compose three morphisms.   *)
(***************************************************************************)
\* The toric morphisms that start where f ends.
Composable(f) == UNION {ToricMorphismsBetween(f.codomain, X) : X \in Varieties}

\* The varieties through which chains of three morphisms are composed.
ChainVarieties == {ToricVariety(A1), ToricVariety(P1), ToricVariety(A2)}

Compose ==
    /\ Idle
    /\ \E left \in Composable(phi) :
        /\ call' = [op |-> "__mul__", left |-> left]
        /\ ret' = Mul(left, phi)
        /\ UNCHANGED <<phi, game, lcp, frames>>

ComposeThree ==
    /\ Idle
    /\ {phi.domain, phi.codomain} \subseteq ChainVarieties
    /\ \E Y \in ChainVarieties, Z \in ChainVarieties :
       \E g \in ToricMorphismsBetween(phi.codomain, Y) : \E h \in ToricMorphismsBetween(Y, Z) :
        /\ call' = [op |-> "__mul__3", g |-> g, h |-> h]
        /\ ret' = LET hg == Mul(h, g)
                      gf == Mul(g, phi)
                  IN  IF hg.kind = "raise" THEN hg
                      ELSE IF gf.kind = "raise" THEN gf
                      ELSE Returned([left_first  |-> Mul(hg.val, phi),
                                     right_first |-> Mul(h, gf.val)])
        /\ UNCHANGED <<phi, game, lcp, frames>>

Next ==
    \/ Construct
    \/ Cmp
    \/ Compose
    \/ ComposeThree
    \/ Factor
    \/ AsPolynomialMap
    \/ IsBundle
    \/ IsFibration
    \/ IsInjective
    \/ IsSurjective
    \/ IsBirational
    \/ Fiber
    \/ Drop

Spec == Init /\ [][Next]_vars

(***************************************************************************)
(* Examples from the documentation of the module.                          *)
(***************************************************************************)
\* P1.hom(FanMorphism(matrix(ZZ,[[1,0]]), P1.fan(), P2.fan()), P2)
P1_to_P2 == hom(ToricVariety(P1), FanMorphism(Matrix(1, 2, << <<1, 0>> >>), P1, P2),
                ToricVariety(P2)).val

\* blowup = O2_P1.hom(identity_matrix(2), A2_Z2)
blowup == hom(ToricVariety(O2_P1), FanMorphism(identity_matrix(2), O2_P1, A2_Z2),
              ToricVariety(A2_Z2)).val

\* P1.hom(fm, P2).as_polynomial_map() sends [u : v] to [u : v : v].
Example_P1_to_P2 ==
    (call.op = "as_polynomial_map" /\ phi = P1_to_P2) =>
        /\ ret.kind = "return"
        /\ ret.val.polys = << [coef |-> 1, exp |-> <<1, 0>>],
                              [coef |-> 1, exp |-> <<0, 1>>],
                              [coef |-> 1, exp |-> <<0, 1>>] >>

\* blowup.as_polynomial_map() raises the TypeError.
Example_blowup ==
    (call.op = "as_polynomial_map" /\ phi = blowup) =>
        ret = Raised("TypeError", "The fan morphism cannot be written in homogeneous polynomials.")

(***************************************************************************)
(* Claims about as_polynomial_map.                                         *)
(***************************************************************************)
\* Largest coefficient that can occur when the image of a ray of a catalogue
\* fan is written in the rays of a cone of a catalogue fan.
CoefMax == 16 * MaxEntry

\* The combinations with non-negative integer coefficients of the rays of the
\* cone T of the fan F that give the vector v.
IntegerCombinations(F, T, v) ==
    {d \in [T -> 0..CoefMax] :
        v = [k \in 1..F.dim |->
                SumTo([i \in 1..nrays(F) |-> IF i \in T THEN d[i] * F.rays[i][k] ELSE 0],
                      nrays(F))]}

\* Some ray of the domain fan has an image whose coefficients in the rays of
\* its image cone are not all integers.
HasNonIntegralRay(self) ==
    LET f == fan_morphism(self)
    IN  \E j \in 1..nrays(f.domain_fan) :
            IntegerCombinations(f.codomain_fan, image_cone(f, {j}),
                                Image(f, f.domain_fan.rays[j])) = {}

\* C1: as_polynomial_map raises TypeError('The fan morphism cannot be written
\* in homogeneous polynomials.') if and only if the image of some ray of the
\* domain fan has a non-integer coefficient in the rays of its image cone; in
\* every other case it returns a polynomial map.
C1_RaisesIffNonIntegral ==
    call.op = "as_polynomial_map" =>
        IF HasNonIntegralRay(phi)
        THEN ret = Raised("TypeError",
                          "The fan morphism cannot be written in homogeneous polynomials.")
        ELSE /\ ret.kind = "return"
             /\ ret.val.cls = "SchemeMorphism_polynomial_toric_variety"

C1_Witness ==
    /\ call.op = "as_polynomial_map"
    /\ phi = blowup
    /\ ret.kind = "raise"

\* C2: when as_polynomial_map succeeds there is one polynomial per ray of the
\* codomain fan, and the polynomial at codomain ray i is the product over the
\* domain rays j of x_j^(d_j,i), where the d_j,i are the coefficients of the
\* image of ray j in the rays of its image cone (0 outside that cone); a
\* codomain ray in no image cone gets the polynomial 1.
C2_MonomialExponents ==
    (call.op = "as_polynomial_map" /\ ret.kind = "return") =>
        LET f     == fan_morphism(phi)
            polys == ret.val.polys
            m     == nrays(f.codomain_fan)
        IN  /\ Len(polys) = m
            /\ \A i \in 1..m : polys[i].coef = 1 /\ Len(polys[i].exp) = nrays(f.domain_fan)
            /\ \A j \in 1..nrays(f.domain_fan) :
                  /\ \A i \in 1..m : i \notin image_cone(f, {j}) => polys[i].exp[j] = 0
                  /\ Image(f, f.domain_fan.rays[j]) =
                        [k \in 1..f.codomain_fan.dim |->
                            SumTo([i \in 1..m |-> polys[i].exp[j] * f.codomain_fan.rays[i][k]], m)]
            /\ \A i \in 1..m :
                  (\A j \in 1..nrays(f.domain_fan) : i \notin image_cone(f, {j}))
                      => polys[i] = One(nrays(f.domain_fan))

C2_Witness ==
    /\ call.op = "as_polynomial_map"
    /\ phi = P1_to_P2
    /\ ret.kind = "return"
    /\ ret.val.polys[3].exp = <<0, 1>>

(***************************************************************************)
(* Claims about factor.                                                    *)
(***************************************************************************)
\* P1xP1.hom(matrix([[1],[0]]), P1), the projection to the first factor.
proj == hom(ToricVariety(P1xP1), FanMorphism(Matrix(2, 1, << <<1>>, <<0>> >>), P1xP1, P1),
            ToricVariety(P1)).val

\* C3: the product of the triple returned by phi.factor() is phi again:
\* prod(phi.factor()) == phi, and cmp(phi, prod(phi.factor())) is 0, whichever
\* way the product of the three is bracketed.
C3_FactorProduct ==
    call.op = "factor" =>
        /\ ret.kind = "return"
        /\ LET t  == ret.val
               ib == Mul(t[1], t[2])
               bs == Mul(t[2], t[3])
           IN  /\ ib.kind = "return"
               /\ bs.kind = "return"
               /\ Mul(ib.val, t[3]) = Returned(phi)
               /\ Mul(t[1], bs.val) = Returned(phi)
               /\ \A order \in {-1, 1} : __cmp__(phi, Mul(ib.val, t[3]).val, order) = 0

C3_Witness ==
    /\ call.op = "factor"
    /\ phi = P1_to_P2
    /\ ret.kind = "return"
    /\ ret.val[1].domain.fan.dim = 1
    /\ ret.val[1].codomain = ToricVariety(P2)
    /\ ret.val[1] # phi

\* C4: factor returns (phi_i, phi_b, phi_s) where phi_s is surjective and
\* starts at the domain of phi, phi_b is birational, phi_i is injective and
\* ends at the codomain of phi, the codomain of phi_s is the domain of phi_b
\* and the codomain of phi_b is the domain of phi_i.
C4_FactorProperties ==
    call.op = "factor" =>
        /\ ret.kind = "return"
        /\ LET phi_i == ret.val[1]
               phi_b == ret.val[2]
               phi_s == ret.val[3]
           IN  /\ fm_is_surjective(fan_morphism(phi_s))
               /\ phi_s.domain = phi.domain
               /\ fm_is_birational(fan_morphism(phi_b))
               /\ fm_is_injective(fan_morphism(phi_i))
               /\ phi_i.codomain = phi.codomain
               /\ phi_s.codomain = phi_b.domain
               /\ phi_b.codomain = phi_i.domain

C4_Witness ==
    /\ call.op = "factor"
    /\ phi = blowup
    /\ ret.kind = "return"
    /\ nrays(ret.val[2].domain.fan) = 3
    /\ nrays(ret.val[2].codomain.fan) = 2

(***************************************************************************)
(* Claims about is_birational.                                             *)
(***************************************************************************)
\* C5: for a toric morphism f defined by a fan morphism, f.is_birational()
\* returns a Boolean, the value of f.fan_morphism().is_birational().
C5_IsBirationalDelegates ==
    call.op = "is_birational" => ret = Returned(fm_is_birational(fan_morphism(phi)))

(***************************************************************************)
(* Claims about the constructor.                                           *)
(***************************************************************************)
\* C6: with check=True the constructor raises ValueError when the domain fan
\* or the codomain fan of the fan morphism differs from the fan of the domain
\* or of the codomain of the parent; so a morphism built with the check has
\* the fans of its fan morphism, and fan_morphism() returns exactly the fan
\* morphism that was passed in.
C6_ConstructorCheck ==
    /\ phi.domain.fan = fan_morphism(phi).domain_fan
    /\ phi.codomain.fan = fan_morphism(phi).codomain_fan
    /\ call.op = "__init__" =>
        LET fm       == call.fan_morphism
            mismatch == \/ call.parent.domain.fan # fm.domain_fan
                        \/ call.parent.codomain.fan # fm.codomain_fan
        IN  /\ (call.check /\ mismatch) => (ret.kind = "raise" /\ ret.exc = "ValueError")
            /\ (call.check /\ ~mismatch) => ret.kind = "return"
            /\ ~call.check => ret.kind = "return"
            /\ ret.kind = "return" =>
                  /\ fan_morphism(ret.val) = fm
                  /\ ret.val.domain = call.parent.domain
                  /\ ret.val.codomain = call.parent.codomain
                  /\ call.check =>
                        /\ ret.val.domain.fan = fan_morphism(ret.val).domain_fan
                        /\ ret.val.codomain.fan = fan_morphism(ret.val).codomain_fan

C6_Witness ==
    /\ call.op = "__init__"
    /\ call.check
    /\ call.parent.domain.fan = call.fan_morphism.domain_fan
    /\ call.parent.codomain.fan # call.fan_morphism.codomain_fan
    /\ ret = Raised("ValueError", "The fan morphism codomain must be the fan of the codomain.")

UnitVec(n, i) == [k \in 1..n |-> IF k = i THEN 1 ELSE 0]

\* C8: for composable self and right, self * right is the toric morphism
\* whose fan morphism is self.fan_morphism() * right.fan_morphism(), which
\* applies right first; its domain is right.domain() and its codomain is
\* self.codomain(); and composition is associative on composable triples.
C8_Composition ==
    /\ call.op = "__mul__" =>
          /\ ret.kind = "return"
          /\ ret.val.cls = "SchemeMorphism_fan_toric_variety"
          /\ fan_morphism(ret.val) = fm_mul(fan_morphism(call.left), fan_morphism(phi))
          /\ \A i \in 1..phi.domain.fan.dim :
                Image(fan_morphism(ret.val), UnitVec(phi.domain.fan.dim, i)) =
                    Image(fan_morphism(call.left),
                          Image(fan_morphism(phi), UnitVec(phi.domain.fan.dim, i)))
          /\ ret.val.domain = phi.domain
          /\ ret.val.codomain = call.left.codomain
    /\ call.op = "__mul__3" =>
          /\ ret.kind = "return"
          /\ ret.val.left_first.kind = "return"
          /\ ret.val.left_first = ret.val.right_first

C8_Witness ==
    /\ call.op = "__mul__3"
    /\ ret.kind = "return"
    /\ phi.domain.fan = A1
    /\ call.g.domain.fan = A2
    /\ call.g.codomain.fan = A2
    /\ call.h.codomain.fan = P1
    /\ ret.val.left_first.kind = "return"
    /\ fan_morphism(ret.val.left_first.val).matrix.e = << <<1>> >>

(***************************************************************************)
(* Claims about is_bundle, is_fibration, is_injective and is_surjective.   *)
(***************************************************************************)
Predicates == {"is_bundle", "is_fibration", "is_injective", "is_surjective"}

\* C9: is_bundle, is_fibration, is_injective and is_surjective each return
\* exactly the value of the method of the same name of f.fan_morphism(), and
\* none of them changes f.
C9_PredicatesDelegate ==
    /\ [](/\ call.op = "is_bundle" => ret = Returned(fm_is_bundle(fan_morphism(phi)))
          /\ call.op = "is_fibration" => ret = Returned(fm_is_fibration(fan_morphism(phi)))
          /\ call.op = "is_injective" => ret = Returned(fm_is_injective(fan_morphism(phi)))
          /\ call.op = "is_surjective" => ret = Returned(fm_is_surjective(fan_morphism(phi))))
    /\ [][call'.op \in Predicates => phi' = phi]_vars

C9_Witness ==
    /\ call.op = "is_injective"
    /\ phi = proj
    /\ ret = Returned(FALSE)
    /\ is_surjective(phi)

(***************************************************************************)
(* Claims about fiber.                                                     *)
(***************************************************************************)
\* C10: the fiber over the generic point is the toric variety of a fan in a
\* lattice whose dimension is the rank of the kernel of the fan morphism; it
\* has one ray per ray of the kernel fan, the coordinates of that ray in the
\* echelonized basis of the kernel, and one generating cone per generating
\* cone of the kernel fan, with the same ray indices.  Its embedding is a
\* toric morphism defined by a fan morphism from the fiber to f.domain(),
\* given by the echelonized basis matrix of the kernel: it sends each ray of
\* the fiber to the corresponding ray of the kernel fan, and the fan morphism
\* of f sends every embedded ray to zero.
C10_Fiber ==
    call.op = "fiber" =>
        /\ ret.kind = "return"
        /\ LET fm  == fan_morphism(phi)
               kf  == kernel_fan(fm, call.ok)
               K   == Kernel(fm.matrix)
               F   == ret.val.fan
               emb == ret.val._embedding_morphism
           IN  /\ F.dim = fm.domain_fan.dim - Rank(fm.matrix)
               /\ F.dim = K.nr
               /\ nrays(F) = nrays(kf)
               /\ \A k \in 1..nrays(F) :
                     /\ Len(F.rays[k]) = F.dim
                     /\ VecMat(F.rays[k], K) = kf.rays[k]
                     /\ Image(fan_morphism(emb), F.rays[k]) = kf.rays[k]
                     /\ IsZeroVec(Image(fm, Image(fan_morphism(emb), F.rays[k])))
               /\ F.cones = kf.cones
               /\ emb.cls = "SchemeMorphism_fan_toric_variety"
               /\ emb.domain = ToricVariety(F)
               /\ emb.codomain = phi.domain
               /\ fan_morphism(emb) = FanMorphism(K, F, phi.domain.fan)

C10_Witness ==
    /\ call.op = "fiber"
    /\ phi = proj
    /\ ret.kind = "return"
    /\ nrays(ret.val.fan) = 2
    /\ ret.val.fan.cones = {{1}, {2}}
    /\ fan_morphism(ret.val._embedding_morphism).matrix.e = << <<0, 1>> >>


(***************************************************************************)
(* The fibers of a toric morphism: fiber_component, fiber_dimension,       *)
(* fiber_graph and the embedding of a fiber component.  The sign orient    *)
(* and the flag rev are the choices that the library makes for the         *)
(* generator of a quotient lattice and for the numbering of the rays of a  *)
(* new fan.                                                                *)
(***************************************************************************)
\* The cones of a fan, each as the set of its rays.
ConesOf(F) == {RaySet(F, S) : S \in AllCones(F)}

FiberComponent ==
    /\ Idle
    /\ \E domain_cone \in ConesOf(phi.domain.fan), orient \in {1, -1}, rev \in BOOLEAN :
        /\ call' = [op |-> "fiber_component", domain_cone |-> domain_cone,
                    orient |-> orient, rev |-> rev]
        /\ ret' = fiber_component(phi, domain_cone, orient, rev)
        /\ UNCHANGED <<phi, game, lcp, frames>>

FiberDimension ==
    /\ Idle
    /\ \E codomain_cone \in AllCones(phi.codomain.fan) :
        /\ call' = [op |-> "fiber_dimension", codomain_cone |-> codomain_cone]
        /\ ret' = fiber_dimension(phi, codomain_cone)
        /\ UNCHANGED <<phi, game, lcp, frames>>

FiberGraph ==
    /\ Idle
    /\ \E codomain_cone \in AllCones(phi.codomain.fan), orient \in {1, -1}, rev \in BOOLEAN :
        /\ call' = [op |-> "fiber_graph", codomain_cone |-> codomain_cone,
                    orient |-> orient, rev |-> rev]
        /\ ret' = fiber_graph(phi, codomain_cone, orient, rev)
        /\ UNCHANGED <<phi, game, lcp, frames>>

\* fiber_component(domain_cone).embedding_morphism().as_polynomial_map(), for
\* a fiber component that fiber_component returns; call.self is the embedding.
FiberAsPolynomialMap ==
    /\ Idle
    /\ \E domain_cone \in ConesOf(phi.domain.fan) \ {{}}, orient \in {1, -1}, rev \in BOOLEAN :
        \E component \in {fiber_component(phi, domain_cone, orient, rev)} :
            /\ component.kind = "return"
            /\ call' = [op |-> "fiber_as_polynomial_map",
                        self |-> component.val._embedding_morphism]
            /\ ret' = fiber_as_polynomial_map(component.val._embedding_morphism)
            /\ UNCHANGED <<phi, game, lcp, frames>>

\* The bases over which fibers are taken: those of the examples of
\* fiber_dimension and fiber_component, and the affine line and plane.
FiberBases == {A1, P1, A2, A2_Z2}

\* The toric morphisms from the varieties of the catalogue to these bases.
FiberMorphisms ==
    UNION {ToricMorphismsBetween(ToricVariety(F), ToricVariety(B)) : F \in Fans, B \in FiberBases}

InitFiber ==
    /\ phi \in FiberMorphisms
    /\ call = [op |-> "none"]
    /\ ret = [kind |-> "none"]
    /\ game = None
    /\ lcp = None
    /\ frames = None

NextFiber ==
    \/ FiberComponent
    \/ FiberDimension
    \/ FiberGraph
    \/ FiberAsPolynomialMap
    \/ Drop

SpecFiber == InitFiber /\ [][NextFiber]_vars

\* C11: fiber_component(domain_cone) returns fiber() when domain_cone is the
\* trivial cone; for every other cone of the domain fan it returns the domain
\* of a SchemeMorphism_fan_fiber_toric_variety whose codomain is the domain of
\* the morphism, whose defining cone is domain_cone embedded in the domain fan
\* and whose base cone is the image cone of domain_cone, and that morphism is
\* the embedding morphism of the returned variety.
C11_FiberComponent ==
    call.op = "fiber_component" =>
        IF call.domain_cone = {}
        THEN ret = fiber(phi, RayOrder(KernelRays(fan_morphism(phi)), call.rev))
        ELSE /\ ret.kind = "return"
             /\ LET embedding == ret.val._embedding_morphism
                    S         == embed(phi.domain.fan, call.domain_cone)
                IN  /\ embedding.cls = "SchemeMorphism_fan_fiber_toric_variety"
                    /\ embedding.codomain = phi.domain
                    /\ embedding.domain.fan = ret.val.fan
                    /\ defining_cone(embedding) = S
                    /\ base_cone(embedding) = image_cone(fan_morphism(phi), S)

\* C12: fiber_dimension(codomain_cone) returns the maximum, over the primitive
\* preimage cones c of codomain_cone, of dim(codomain_cone) - dim(c), plus the
\* dimension of the domain minus the rank of the matrix; it is 1 over every
\* cone of P1 for the projection of P1xP1, and 0, 0, 1 over the cones of
\* dimension 0, 1, 2 for the blowup of A2/Z2.
C12_FiberDimension ==
    call.op = "fiber_dimension" =>
        /\ ret.kind = "return"
        /\ LET fm     == fan_morphism(phi)
               T      == call.codomain_cone
               prim   == primitive_preimage_cones(fm, T)
               val(c) == Cardinality(T) - Cardinality(c) + phi.domain.fan.dim - Rank(fm.matrix)
           IN  /\ \E c \in prim : ret.val = val(c)
               /\ \A c \in prim : ret.val >= val(c)
        /\ phi = proj => ret.val = 1
        /\ phi = blowup => ret.val = IF Cardinality(call.codomain_cone) = 2 THEN 1 ELSE 0

\* C13: fiber_graph(codomain_cone) returns a simple graph with one vertex for
\* each primitive preimage cone of codomain_cone; vertex i carries
\* fiber_component(prim[i]); two distinct vertices i and j are joined exactly
\* when the cone generated by the rays of prim[i] and prim[j] is a cone of the
\* domain fan; the graph has no loops and no multiple edges.
C13_FiberGraph ==
    call.op = "fiber_graph" =>
        /\ ret.kind = "return"
        /\ LET fm   == fan_morphism(phi)
               F    == fm.domain_fan
               prim == PrimitivePreimageTuple(fm, call.codomain_cone)
               n    == Cardinality(primitive_preimage_cones(fm, call.codomain_cone))
           IN  /\ DOMAIN ret.val.vertices = 1..n
               /\ \A i \in 1..n :
                     Returned(ret.val.vertices[i])
                         = fiber_component(phi, RaySet(F, prim[i]), call.orient, call.rev)
               /\ \A e \in ret.val.edges : e \subseteq 1..n /\ Cardinality(e) = 2
               /\ \A i, j \in 1..n :
                     ({i, j} \in ret.val.edges)
                         <=> (i # j /\ (prim[i] \cup prim[j]) \in AllCones(F))

(***************************************************************************)
(* The embedding of an orbit closure: phi is the embedding morphism of     *)
(* X.orbit_closure(cone) for a variety and a cone of the catalogue.        *)
(***************************************************************************)
OrbitEmbeddings ==
    UNION {{orbit_closure(X, cone, orient, rev) :
                cone \in ConesOf(X.fan), orient \in {1, -1}, rev \in BOOLEAN} :
           X \in Varieties}

InitOrbit ==
    /\ phi \in OrbitEmbeddings
    /\ call = [op |-> "none"]
    /\ ret = [kind |-> "none"]
    /\ game = None
    /\ lcp = None
    /\ frames = None

ReverseRayMap ==
    /\ Idle
    /\ call' = [op |-> "_reverse_ray_map"]
    /\ ret' = Returned(_reverse_ray_map(phi))
    /\ UNCHANGED <<phi, game, lcp, frames>>

OrbitAsPolynomialMap ==
    /\ Idle
    /\ call' = [op |-> "as_polynomial_map"]
    /\ ret' = orbit_closure_as_polynomial_map(phi)
    /\ UNCHANGED <<phi, game, lcp, frames>>

NextOrbit ==
    \/ ReverseRayMap
    \/ OrbitAsPolynomialMap
    \/ Drop

SpecOrbit == InitOrbit /\ [][NextOrbit]_vars

\* Whether some ray of the orbit fan is not a key of the reversed ray map.
OrbitRayMissing ==
    \E i \in 1..nrays(phi.domain.fan) :
        phi.domain.fan.rays[i] \notin DOMAIN _reverse_ray_map(phi)

\* C14: as_polynomial_map of the embedding of an orbit closure raises
\* TypeError('The embedding cannot be written with homogeneous polynomials.')
\* exactly when some ray of the orbit fan is not a key of the reversed ray
\* map; otherwise it returns a polynomial map.
C14_OrbitRaisesIffMissing ==
    call.op = "as_polynomial_map" =>
        IF OrbitRayMissing
        THEN ret = Raised("TypeError",
                          "The embedding cannot be written with homogeneous polynomials.")
        ELSE /\ ret.kind = "return"
             /\ ret.val.cls = "SchemeMorphism_polynomial_toric_variety"
             /\ ret.val.domain = phi.domain
             /\ ret.val.codomain = phi.codomain

\* The embedding of the orbit closure of the ray (1,0) of A2_Z2, whose other
\* ray (1,2) projects to twice the orbit ray, raises.
C14_Witness ==
    /\ call.op = "as_polynomial_map"
    /\ phi.cls = "SchemeMorphism_orbit_closure_toric_variety"
    /\ phi.codomain.fan = A2_Z2
    /\ OrbitRayMissing
    /\ ret.kind = "raise"

\* C15: on success as_polynomial_map gives one polynomial for each ray of the
\* ambient fan: 0 at the indices of the defining cone, the i-th coordinate of
\* the orbit at the index of an ambient ray that the ray map sends to the i-th
\* orbit ray, and 1 elsewhere; every coordinate of the orbit appears exactly
\* once, and never at an index of the defining cone.
C15_OrbitPolynomials ==
    (call.op = "as_polynomial_map" /\ ret.kind = "return") =>
        LET F     == phi.codomain.fan
            R     == phi.domain.fan.rays
            n     == Len(R)
            polys == ret.val.polys
        IN  /\ Len(polys) = nrays(F)
            /\ \A k \in 1..nrays(F) :
                  IF k \in phi._defining_cone THEN polys[k] = Zero(n)
                  ELSE \/ polys[k] = One(n)
                       \/ \E i \in 1..n :
                             /\ polys[k] = Gen(n, i)
                             /\ F.rays[k] \in DOMAIN phi._ray_map
                             /\ phi._ray_map[F.rays[k]] = R[i]
            /\ \A i \in 1..n :
                  Cardinality({k \in 1..nrays(F) : polys[k] = Gen(n, i)}) = 1

\* P2.orbit_closure(P2.fan(1)[0]).embedding_morphism().as_polynomial_map()
\* sends [z0 : z1] to [0 : z1 : z0].
C15_Witness ==
    /\ call.op = "as_polynomial_map"
    /\ phi.cls = "SchemeMorphism_orbit_closure_toric_variety"
    /\ phi.codomain.fan = P2
    /\ phi._defining_cone = {1}
    /\ ret.kind = "return"
    /\ ret.val.polys = << Zero(2), Gen(2, 2), Gen(2, 1) >>

\* C16: as_polynomial_map of the embedding of a fiber component raises
\* TypeError('The morphism cannot be written using homogeneous polynomials.')
\* exactly when some ray of the fiber fan is not a key of _ray_index_map;
\* otherwise it returns one polynomial for each ray of the fan of the total
\* space: 0 at the indices of the defining cone, the fiber coordinate at the
\* index of a domain ray that projects onto its ray, and 1 elsewhere.
C16_FiberPolynomials ==
    call.op = "fiber_as_polynomial_map" =>
        LET self == call.self
            F    == self.codomain.fan
            R    == self.domain.fan.rays
            n    == Len(R)
        IN  IF \E i \in 1..n : R[i] \notin DOMAIN self._ray_index_map
            THEN ret = Raised("TypeError",
                              "The morphism cannot be written using homogeneous polynomials.")
            ELSE /\ ret.kind = "return"
                 /\ ret.val.cls = "SchemeMorphism_polynomial_toric_variety"
                 /\ Len(ret.val.polys) = nrays(F)
                 /\ \A k \in 1..nrays(F) :
                       IF k \in defining_cone(self) THEN ret.val.polys[k] = Zero(n)
                       ELSE \/ ret.val.polys[k] = One(n)
                            \/ \E i \in 1..n : /\ ret.val.polys[k] = Gen(n, i)
                                               /\ self._ray_index_map[R[i]] = k
                 /\ \A i \in 1..n : ret.val.polys[self._ray_index_map[R[i]]] = Gen(n, i)

\* The fiber component of the projection of P1xP1 to P1 over the ray (1,0)
\* is embedded by [z0 : z1] |-> [0 : 1 : z1 : z0].
C16_Witness ==
    /\ call.op = "fiber_as_polynomial_map"
    /\ phi = proj
    /\ defining_cone(call.self) = {1}
    /\ call.self.domain.fan.rays = << <<-1>>, <<1>> >>
    /\ ret.kind = "return"
    /\ ret.val.polys = << Zero(2), One(2), Gen(2, 2), Gen(2, 1) >>

(***************************************************************************)
(* class NormalFormGame (src/src/sage/game_theory/normal_form_game.py).    *)
(*                                                                         *)
(* A game is a gambit table: its players and the payoff of every player in *)
(* the outcome of the table (the tables drawn here have one strategy per   *)
(* player, so one outcome).  The LCP solver is an external program: what   *)
(* it answers is an input of the call, and lcp logs every run of it with   *)
(* the game it was given and the list of profiles it answered.             *)
(***************************************************************************)
\* Bounds on the games drawn as inputs and on the runs of the solver.
MaxPlayers == 3

MaxPayoff == 1

MaxSolves == 2

Games ==
    UNION {{[cls |-> "NormalFormGame", players |-> n, payoffs |-> p] :
                p \in [1..n -> 0..MaxPayoff]} : n \in 0..MaxPlayers}

\* self[k][i] = int(v), on the outcome k of the table.
SetPayoffOf(self, i, v) == [self EXCEPT !.payoffs[i] = v]

Algorithms == {"LCP", "lrs", "support enumeration"}

\* The lists of Nash profiles that ExternalLCPSolver().solve(game) can answer.
NashProfile(self) == [cls |-> "NashProfile", profile |-> [i \in 1..self.players |-> 1]]

Solutions(self) == {<< >>, << NashProfile(self) >>}

ExternalLCPSolver_solve(self, solution) == [game |-> self, result |-> solution]

obtain_Nash_NoPlayerCheck(self, algorithm, solution, lrs_installed) ==
    IF algorithm = "LCP"
    THEN [ret    |-> Returned(ExternalLCPSolver_solve(self, solution).result),
          solved |-> << ExternalLCPSolver_solve(self, solution) >>]
    ELSE IF algorithm = "lrs" /\ ~lrs_installed
    THEN [ret |-> Raised("NotImplementedError", "lrs is not installed"), solved |-> << >>]
    ELSE [ret |-> Returned(None), solved |-> << >>]

obtain_Nash(self, algorithm, solution, lrs_installed) ==
    IF algorithm = "LCP"
    THEN IF self.players > 2
         THEN [ret    |-> Raised("NotImplementedError",
                                 "Nash equilibrium for games with more than 2 players have not been implemented yet.Please see the gambit website [LINK] that has a variety of available algorithms."),
               solved |-> << >>]
         ELSE [ret    |-> Returned(ExternalLCPSolver_solve(self, solution).result),
               solved |-> << ExternalLCPSolver_solve(self, solution) >>]
    ELSE IF algorithm = "lrs" /\ ~lrs_installed
    THEN [ret |-> Raised("NotImplementedError", "lrs is not installed"), solved |-> << >>]
    ELSE [ret |-> Returned(None), solved |-> << >>]

InitGame ==
    /\ game \in Games
    /\ lcp = << >>
    /\ call = [op |-> "none"]
    /\ ret = [kind |-> "none"]
    /\ phi = None
    /\ frames = None

SetPayoff ==
    /\ Idle
    /\ \E i \in 1..game.players, v \in 0..MaxPayoff :
        /\ game.payoffs[i] # v
        /\ game' = SetPayoffOf(game, i, v)
        /\ UNCHANGED <<phi, call, ret, lcp, frames>>

\* g.obtain_Nash() or g.obtain_Nash(algorithm): args is the argument list.
ObtainNash ==
    /\ Idle
    /\ Len(lcp) < MaxSolves
    /\ \E args \in {<< >>} \cup {<<a>> : a \in Algorithms},
          solution \in Solutions(game), lrs_installed \in BOOLEAN :
        \E out \in {obtain_Nash(game, IF args = << >> THEN "LCP" ELSE args[1],
                                solution, lrs_installed)} :
            /\ call' = [op |-> "obtain_Nash", args |-> args]
            /\ ret' = out.ret
            /\ lcp' = lcp \o out.solved
            /\ UNCHANGED <<phi, game, frames>>

NextGame ==
    \/ SetPayoff
    \/ ObtainNash
    \/ Drop

SpecGame == InitGame /\ [][NextGame]_vars

\* C17: a call of obtain_Nash with algorithm 'LCP', given or by default,
\* leaves the payoffs of the game unchanged; on a game of more than 2 players
\* it raises NotImplementedError and the solver is not run; otherwise the
\* solver is run once, on the game, and the call returns what it answered.
C17_ObtainNashLCP ==
    [][(/\ Idle
        /\ call'.op = "obtain_Nash"
        /\ call'.args \in {<< >>, <<"LCP">>})
       => /\ game' = game
          /\ IF game.players > 2
             THEN /\ ret'.kind = "raise"
                  /\ ret'.exc = "NotImplementedError"
                  /\ lcp' = lcp
             ELSE /\ Len(lcp') = Len(lcp) + 1
                  /\ SubSeq(lcp', 1, Len(lcp)) = lcp
                  /\ lcp'[Len(lcp')].game = game
                  /\ ret' = Returned(lcp'[Len(lcp')].result)]_vars

\* A game of 2 players whose payoffs were set is solved by the default
\* algorithm: the solver ran once and its profile is returned.
C17_Witness ==
    /\ call.op = "obtain_Nash"
    /\ call.args = << >>
    /\ game.players = 2
    /\ game.payoffs = <<1, 1>>
    /\ Len(lcp) = 1
    /\ lcp[1].game = game
    /\ ret = Returned(<< NashProfile(game) >>)

(***************************************************************************)
(* class LocalFrame (src/src/sage/manifolds/local_frame.py).               *)
(*                                                                         *)
(* frames is the tuple of the local frames constructed so far; a frame is  *)
(* referred to by its position in it, which is its identity as an object.  *)
(* An open subset is the set of its points.  A dictionary is a function on *)
(* its keys; the order in which a dictionary or a set is iterated is not   *)
(* fixed by the language, so a loop that returns at the first match may    *)
(* return at any match: restrict is the set of the outcomes of a call.     *)
(***************************************************************************)
\* Bound on the number of points of the base space.
MaxPoints == 3

\* The open subsets of the base space: the points are on a line and the
\* open subsets are the intervals around the point 2.
Domains == {a..b : a \in 1..2, b \in 2..MaxPoints}

\* LocalFrame(resmodule, symbol, ...): the class has a unique representation,
\* the constructor returns the instance that was built from the same
\* arguments when there is one and runs __init__ only on a new instance.
LocalFrame(fs, symbol, domain) ==
    IF \E i \in 1..Len(fs) : fs[i]._symbol = symbol /\ fs[i]._domain = domain
    THEN [frames |-> fs,
          id     |-> CHOOSE i \in 1..Len(fs) : fs[i]._symbol = symbol /\ fs[i]._domain = domain]
    ELSE [frames |-> Append(fs, [_symbol       |-> symbol,
                                 _domain       |-> domain,
                                 _subframes    |-> {Len(fs) + 1},
                                 _superframes  |-> {Len(fs) + 1},
                                 _restrictions |-> [dom \in {} |-> 0]]),
          id     |-> Len(fs) + 1]

\* The frame res becomes the restriction of self to subdomain:
\* self._restrictions[subdomain] = res and the update of the superframes of
\* res and of the subframes of the superframes of self; returns res.
RecordRestriction(fs, self, subdomain, res) ==
    [frames |-> [i \in 1..Len(fs) |->
                    [fs[i] EXCEPT
                        !._restrictions = IF i = self THEN (subdomain :> res) @@ @ ELSE @,
                        !._superframes  = IF i = res THEN @ \cup fs[self]._superframes ELSE @,
                        !._subframes    = IF i \in fs[self]._superframes THEN @ \cup {res} ELSE @]],
     ret    |-> Returned(res)]

AdoptRestriction_Holder(fs, self, subdomain, holder) ==
    RecordRestriction(fs, self, subdomain, holder)

\* res = holder._restrictions[subdomain], for holder a restriction of self
\* (first loop) or a superframe of self (third loop), is adopted by self.
AdoptRestriction(fs, self, subdomain, holder) ==
    RecordRestriction(fs, self, subdomain, fs[holder]._restrictions[subdomain])

\* One turn of the last loop of restrict, on the item (dom, rst) of
\* self._restrictions with dom a subset of subdomain.
AbsorbSubframe(fs, res, rst) ==
    [i \in 1..Len(fs) |->
        [fs[i] EXCEPT
            !._restrictions = IF i = res THEN fs[rst]._restrictions @@ @ ELSE @,
            !._subframes    = IF i = res THEN @ \cup fs[rst]._subframes ELSE @,
            !._superframes  = IF i = rst THEN @ \cup fs[res]._superframes ELSE @]]

RECURSIVE AbsorbSubframes(_, _, _, _)
AbsorbSubframes(fs, res, order, k) ==
    IF k > Len(order) THEN fs
    ELSE AbsorbSubframes(AbsorbSubframe(fs, res, order[k]), res, order, k + 1)

\* The orders in which a loop can go through the set S.
IterationOrders(S) ==
    {order \in [1..Cardinality(S) -> S] : \A i, j \in 1..Cardinality(S) : order[i] = order[j] => i = j}

\* The restriction is created from scratch: made is what the constructor
\* returned.
CreateRestriction(made, self, subdomain) ==
    LET fs  == made.frames
        res == made.id
        sup == fs[self]._superframes
        registered ==
            [i \in 1..Len(fs) |->
                [fs[i] EXCEPT
                    !._superframes  = IF i = res THEN @ \cup sup ELSE @,
                    !._subframes    = IF i \in sup THEN @ \cup {res} ELSE @,
                    !._restrictions = IF i \in sup THEN (subdomain :> res) @@ @ ELSE @]]
        items == {registered[self]._restrictions[dom] :
                      dom \in {d \in DOMAIN registered[self]._restrictions : d \subseteq subdomain}}
    IN  {[frames |-> AbsorbSubframes(registered, res, order, 1),
          ret    |-> Returned(registered[self]._restrictions[subdomain])] :
             order \in IterationOrders(items)}

StoreRestriction_Rst(out, self, subdomain, rst) ==
    [frames |-> [out.frames EXCEPT ![self]._restrictions = (subdomain :> rst) @@ @],
     ret    |-> Returned(rst)]

\* self._restrictions[subdomain] = rst.restrict(subdomain), out being an
\* outcome of the inner call.
StoreRestriction(out, self, subdomain, rst) ==
    IF out.ret.kind = "return"
    THEN [frames |-> [out.frames EXCEPT ![self]._restrictions = (subdomain :> out.ret.val) @@ @],
          ret    |-> out.ret]
    ELSE out

RECURSIVE restrict(_, _, _)
restrict(fs, self, subdomain) ==
    IF subdomain = fs[self]._domain
    THEN {[frames |-> fs, ret |-> Returned(self)]}
    ELSE IF subdomain \in DOMAIN fs[self]._restrictions
    THEN {[frames |-> fs, ret |-> Returned(fs[self]._restrictions[subdomain])]}
    ELSE IF ~(subdomain \subseteq fs[self]._domain)
    THEN {[frames |-> fs,
           ret    |-> Raised("ValueError",
                             "the provided domain is not a subdomain of the current frame's domain")]}
    ELSE IF \E dom \in DOMAIN fs[self]._restrictions :
                /\ subdomain \subseteq dom
                /\ subdomain \in DOMAIN fs[fs[self]._restrictions[dom]]._restrictions
    THEN {AdoptRestriction(fs, self, subdomain, fs[self]._restrictions[dom]) :
             dom \in {d \in DOMAIN fs[self]._restrictions :
                         /\ subdomain \subseteq d
                         /\ subdomain \in DOMAIN fs[fs[self]._restrictions[d]]._restrictions}}
    ELSE IF \E dom \in DOMAIN fs[self]._restrictions : subdomain \subseteq dom
    THEN UNION {{StoreRestriction(out, self, subdomain, fs[self]._restrictions[dom]) :
                    out \in restrict(fs, fs[self]._restrictions[dom], subdomain)} :
                 dom \in {d \in DOMAIN fs[self]._restrictions : subdomain \subseteq d}}
    ELSE IF \E sframe \in fs[self]._superframes : subdomain \in DOMAIN fs[sframe]._restrictions
    THEN {AdoptRestriction(fs, self, subdomain, sframe) :
             sframe \in {sf \in fs[self]._superframes : subdomain \in DOMAIN fs[sf]._restrictions}}
    ELSE CreateRestriction(LocalFrame(fs, fs[self]._symbol, subdomain), self, subdomain)

\* A frame e on an open subset of the base space.
InitFrames ==
    /\ \E domain \in Domains : frames = LocalFrame(<< >>, "e", domain).frames
    /\ call = [op |-> "none"]
    /\ ret = [kind |-> "none"]
    /\ phi = None
    /\ game = None
    /\ lcp = None

Restrict ==
    /\ Idle
    /\ \E self \in 1..Len(frames), subdomain \in Domains :
        \E out \in restrict(frames, self, subdomain) :
            /\ call' = [op |-> "restrict", self |-> self, subdomain |-> subdomain]
            /\ ret' = out.ret
            /\ frames' = out.frames
            /\ UNCHANGED <<phi, game, lcp>>

NextFrames ==
    \/ Restrict
    \/ Drop

SpecFrames == InitFrames /\ [][NextFrames]_vars

\* C18: a restriction is constructed only once.  A call frame.restrict(V)
\* that returns gives a frame of domain V, which is frame itself when V is
\* its domain and is recorded in frame._restrictions[V] otherwise; no call
\* changes the domain of a frame or a recorded restriction of any frame; and
\* a call frame.restrict(V) made when the restriction is recorded returns the
\* recorded frame and constructs no frame.
C18_RestrictOnce ==
    [][(Idle /\ call'.op = "restrict")
       => /\ Len(frames') >= Len(frames)
          /\ \A i \in 1..Len(frames) :
                /\ frames'[i]._domain = frames[i]._domain
                /\ \A dom \in DOMAIN frames[i]._restrictions :
                      /\ dom \in DOMAIN frames'[i]._restrictions
                      /\ frames'[i]._restrictions[dom] = frames[i]._restrictions[dom]
          /\ ret'.kind = "return" =>
                /\ ret'.val \in 1..Len(frames')
                /\ frames'[ret'.val]._domain = call'.subdomain
                /\ IF call'.subdomain = frames[call'.self]._domain
                   THEN ret'.val = call'.self
                   ELSE /\ call'.subdomain \in DOMAIN frames'[call'.self]._restrictions
                        /\ frames'[call'.self]._restrictions[call'.subdomain] = ret'.val
          /\ call'.subdomain \in DOMAIN frames[call'.self]._restrictions =>
                /\ ret' = Returned(frames[call'.self]._restrictions[call'.subdomain])
                /\ Len(frames') = Len(frames)]_vars

\* The frame 2 was constructed by the first call on the frame 1, the frame 3
\* by a later call; a call that constructs a frame returns it, so the call
\* that returned the frame 2 here repeats the first one.
C18_Witness ==
    /\ call.op = "restrict"
    /\ call.self = 1
    /\ Len(frames) >= 3
    /\ call.subdomain = frames[2]._domain
    /\ ret = Returned(2)

\* C19: in every state the calls can have led to (the state between two calls,
\* which a call in progress does not change), for a frame e on U and open
\* subsets W of V of U, the calls e.restrict(V).restrict(W) and then
\* e.restrict(W) return the same frame, and so do e.restrict(W) and then
\* e.restrict(V).restrict(W); and no two frames have the same symbol and the
\* same domain.
C19_RestrictPathIndependent ==
    Idle =>
    /\ \A i, j \in 1..Len(frames) :
          (frames[i]._symbol = frames[j]._symbol /\ frames[i]._domain = frames[j]._domain) => i = j
    /\ \A e \in 1..Len(frames), V \in Domains :
          V \subseteq frames[e]._domain =>
              \A W \in {D \in Domains : D \subseteq V} :
                  /\ \A eV \in restrict(frames, e, V) :
                        /\ eV.ret.kind = "return"
                        /\ \A eVW \in restrict(eV.frames, eV.ret.val, W) :
                              /\ eVW.ret.kind = "return"
                              /\ \A eW \in restrict(eVW.frames, e, W) : eW.ret = eVW.ret
                  /\ \A eW \in restrict(frames, e, W) :
                        /\ eW.ret.kind = "return"
                        /\ \A eV \in restrict(eW.frames, e, V) :
                              /\ eV.ret.kind = "return"
                              /\ \A eVW \in restrict(eV.frames, eV.ret.val, W) : eVW.ret = eW.ret

\* e.restrict(W) constructed the frame 2, e.restrict(V) then the frame 3, and
\* the nested call on the frame 3 returns the frame 2.
C19_Witness ==
    /\ call.op = "restrict"
    /\ call.self = 3
    /\ Len(frames) = 3
    /\ frames[1]._restrictions[frames[3]._domain] = 3
    /\ call.subdomain = frames[2]._domain
    /\ frames[2]._domain \subseteq frames[3]._domain
    /\ ret = Returned(2)
    /\ frames[1]._restrictions[call.subdomain] = 2

====
